---- MODULE Spec2Model ----
(***************************************************************************)
(* Sabin: file-based task tracking (CLI + editor extension).               *)
(* The model covers the task store (tasks/open, tasks/completed), the      *)
(* frontmatter codec, the numbering service, the .sabin resolver and the   *)
(* working-directory-name derivation.                                      *)
(*                                                                         *)
(* Strings the code inspects character by character (file names, task      *)
(* ids, the project prefix) are sequences of one-character strings.        *)
(* Paths are sequences of segments.  A task file's text is a sequence of   *)
(* lines plus a flag telling whether the text ends with a newline.         *)
(***************************************************************************)
EXTENDS Integers, Sequences, FiniteSets, TLC

\* ------------------------------------------------------------------------
\* Bounds of the model
\* ------------------------------------------------------------------------

\* Most task files the store may hold at once (creation stops there).
MaxFiles == 2
\* the largest number a generated id may take
MaxTaskNumber == 3

\* ------------------------------------------------------------------------
\* Strings as sequences of characters
\* ------------------------------------------------------------------------

DigitChars == <<"0", "1", "2", "3", "4", "5", "6", "7", "8", "9">>

IsDigit(c) == \E i \in 1..Len(DigitChars) : DigitChars[i] = c

DigitVal(c) == (CHOOSE i \in 1..Len(DigitChars) : DigitChars[i] = c) - 1

\* The order in which a directory listing returns names: by character.
CharList == <<" ", "-", ".", "0", "1", "2", "3", "4", "5", "6", "7", "8", "9",
              "A", "J", "T", "a", "d", "m">>

CharOrd(c) == CHOOSE i \in 1..Len(CharList) : CharList[i] = c

RECURSIVE StrLess(_, _)
StrLess(a, b) ==
  IF b = <<>> THEN FALSE
  ELSE IF a = <<>> THEN TRUE
  ELSE IF a[1] = b[1] THEN StrLess(Tail(a), Tail(b))
  ELSE CharOrd(a[1]) < CharOrd(b[1])

\* String.prototype.includes
Includes(s, sub) ==
  \E i \in 0..(Len(s) - Len(sub)) : SubSeq(s, i + 1, i + Len(sub)) = sub

\* String.prototype.endsWith
EndsWith(s, suf) ==
  /\ Len(s) >= Len(suf)
  /\ SubSeq(s, Len(s) - Len(suf) + 1, Len(s)) = suf

\* String.prototype.trim (the only whitespace of the model is the blank)
RECURSIVE TrimStart(_)
TrimStart(s) ==
  IF s # <<>> /\ s[1] = " " THEN TrimStart(Tail(s)) ELSE s

RECURSIVE TrimEnd(_)
TrimEnd(s) ==
  IF s # <<>> /\ s[Len(s)] = " " THEN TrimEnd(SubSeq(s, 1, Len(s) - 1)) ELSE s

Trim(s) == TrimEnd(TrimStart(s))

\* parseInt(digits, 10)
RECURSIVE ParseInt(_)
ParseInt(ds) ==
  IF ds = <<>> THEN 0
  ELSE 10 * ParseInt(SubSeq(ds, 1, Len(ds) - 1)) + DigitVal(ds[Len(ds)])

\* String(n) for n >= 0
RECURSIVE NumToStr(_)
NumToStr(n) ==
  IF n < 10 THEN <<DigitChars[n + 1]>>
  ELSE NumToStr(n \div 10) \o <<DigitChars[(n % 10) + 1]>>

\* String.prototype.padStart(width, '0')
RECURSIVE PadStart(_, _)
PadStart(s, width) ==
  IF Len(s) >= width THEN s ELSE PadStart(<<"0">> \o s, width)

MdExt == <<".", "m", "d">>

\* path.basename(file, '.md')
Stem(name) ==
  IF EndsWith(name, MdExt) /\ Len(name) > Len(MdExt)
  THEN SubSeq(name, 1, Len(name) - Len(MdExt))
  ELSE name

FileName(id) == id \o MdExt

\* name.match(new RegExp(`^${prefix}-(\\d+)\\.md$`)): the digits of the
\* capture group, or <<>> when the name does not match.
MatchTaskFile(name, prefix) ==
  LET lo == Len(prefix) + 2
      hi == Len(name) - Len(MdExt)
  IN  IF /\ hi >= lo
         /\ SubSeq(name, 1, Len(prefix)) = prefix
         /\ name[Len(prefix) + 1] = "-"
         /\ EndsWith(name, MdExt)
         /\ \A i \in lo..hi : IsDigit(name[i])
      THEN SubSeq(name, lo, hi)
      ELSE <<>>

\* ------------------------------------------------------------------------
\* Paths (node's path module on POSIX): an absolute path is its sequence of
\* segments; a possibly relative path is [abs, segs].
\* ------------------------------------------------------------------------

RECURSIVE NormSegs(_, _)
NormSegs(done, rest) ==
  IF rest = <<>> THEN done
  ELSE IF rest[1] = "." THEN NormSegs(done, Tail(rest))
  ELSE IF rest[1] = ".."
       THEN NormSegs(IF done = <<>> THEN <<>> ELSE SubSeq(done, 1, Len(done) - 1),
                     Tail(rest))
  ELSE NormSegs(Append(done, rest[1]), Tail(rest))

\* path.resolve(base, p) for an absolute base
PathResolve(base, p) ==
  IF p.abs THEN NormSegs(<<>>, p.segs) ELSE NormSegs(<<>>, base \o p.segs)

\* path.join(dir, seg)
PathJoin(dir, seg) == Append(dir, seg)

\* path.dirname of an absolute path
PathDirname(p) == IF p = <<>> THEN <<>> ELSE SubSeq(p, 1, Len(p) - 1)

RECURSIVE CommonLen(_, _)
CommonLen(a, b) ==
  IF a = <<>> \/ b = <<>> \/ a[1] # b[1] THEN 0
  ELSE 1 + CommonLen(Tail(a), Tail(b))

RECURSIVE Ups(_)
Ups(n) == IF n = 0 THEN <<>> ELSE <<"..">> \o Ups(n - 1)

\* path.relative(from, to) for absolute paths; <<>> is the empty string
PathRelative(from, to) ==
  LET c == CommonLen(from, to)
  IN  Ups(Len(from) - c) \o SubSeq(to, c + 1, Len(to))

\* core getWorkingDirName(sabinDir, projectRoot)
GetWorkingDirName(sabinDir, projectRoot) ==
  LET sabinParent == PathDirname(sabinDir)
      relativePath == PathRelative(sabinParent, projectRoot)
  IN  IF relativePath = <<>> THEN <<".">> ELSE relativePath

\* TaskService.getWorkingDirName(sabinDir) of the extension
ExtGetWorkingDirName(workspaceRoot, sabinDir) ==
  IF workspaceRoot = sabinDir THEN <<".">>
  ELSE LET relativePath == PathRelative(PathDirname(sabinDir), workspaceRoot)
       IN  IF relativePath = <<>> THEN <<".">> ELSE relativePath

\* ------------------------------------------------------------------------
\* The .sabin entry of a project directory and its resolution
\* ------------------------------------------------------------------------

NoPath == [abs |-> FALSE, segs |-> <<>>]

\* What <project>/.sabin is.  kind: "none" | "dir" | "file".  For a file:
\* json = its content parses as JSON, field = the parsed object has a truthy
\* sabinDir, target = that path.  own = the project directory itself holds
\* tasks/ or config.json.
SabinNone == [kind |-> "none", json |-> FALSE, field |-> FALSE, target |-> NoPath]
SabinDirEntry == [kind |-> "dir", json |-> FALSE, field |-> FALSE, target |-> NoPath]
SabinLink(p) == [kind |-> "file", json |-> TRUE, field |-> TRUE, target |-> p]
SabinBadJson == [kind |-> "file", json |-> FALSE, field |-> FALSE, target |-> NoPath]
SabinNoField == [kind |-> "file", json |-> TRUE, field |-> FALSE, target |-> NoPath]

\* a resolver that answers <startDir>/.sabin whatever is there
ResolveAsLocal(entry, startDir) ==
  [ok |-> TRUE, err |-> "", sabinDir |-> PathJoin(startDir, ".sabin"),
   isLinked |-> FALSE, projectRoot |-> startDir]

\* core resolveSabinDir(startDir)
ResolveSabinDir(entry, startDir) ==
  LET projectRoot == startDir
      sabinPath == PathJoin(projectRoot, ".sabin")
      Fail(e) == [ok |-> FALSE, err |-> e, sabinDir |-> <<>>,
                  isLinked |-> FALSE, projectRoot |-> projectRoot]
  IN  IF entry.kind = "none" THEN Fail("not_found")
      ELSE IF entry.kind = "dir"
      THEN [ok |-> TRUE, err |-> "", sabinDir |-> sabinPath,
            isLinked |-> FALSE, projectRoot |-> projectRoot]
      ELSE IF ~entry.json THEN Fail("json_syntax")
      ELSE IF ~entry.field THEN Fail("missing_sabinDir")
      ELSE [ok |-> TRUE, err |-> "",
            sabinDir |-> PathResolve(projectRoot, entry.target),
            isLinked |-> TRUE, projectRoot |-> projectRoot]

\* TaskService.resolveSabinDir() of the extension, cache aside: every failure
\* is logged and replaced by the traditional path.
ExtResolveFresh(entry, own, workspaceRoot) ==
  LET sabinPath == PathJoin(workspaceRoot, ".sabin")
      Local == [sabinDir |-> sabinPath, isLinked |-> FALSE]
  IN  IF own THEN [sabinDir |-> workspaceRoot, isLinked |-> FALSE]
      ELSE IF entry.kind = "none" THEN Local
      ELSE IF entry.kind = "dir" THEN Local
      ELSE IF ~entry.json THEN Local
      ELSE IF entry.field
           THEN [sabinDir |-> PathResolve(workspaceRoot, entry.target),
                 isLinked |-> TRUE]
           ELSE Local

\* SabinFileWatcher.resolveSabinDir(workspaceRoot)
WatcherResolveSabinDir(entry, workspaceRoot) ==
  LET sabinPath == PathJoin(workspaceRoot, ".sabin")
  IN  IF entry.kind = "file" /\ entry.json /\ entry.field
      THEN PathResolve(workspaceRoot, entry.target)
      ELSE sabinPath

\* ------------------------------------------------------------------------
\* Task file text and the frontmatter codec (gray-matter)
\* ------------------------------------------------------------------------

\* A line of text.  t: "delim" is `---`, "kv" is `k: v`, "bad" is a line
\* that is not well-formed YAML (an unclosed bracket), "txt" is body text.
\* Values are sequences of tokens; <<>> stands for undefined.
Delim == [t |-> "delim", k |-> "", v |-> <<>>]
KV(key, val) == [t |-> "kv", k |-> key, v |-> val]
BadLine == [t |-> "bad", k |-> "", v |-> <<>>]
Txt(w) == [t |-> "txt", k |-> "", v |-> <<w>>]

Undef == <<>>

\* the first index from position i on among the line indices in At, or 0
FirstIdx(At, i) ==
  LET S == {j \in At : j >= i}
  IN  IF S = {} THEN 0 ELSE CHOOSE j \in S : \A k \in S : j <= k

IsDelim(l) == l.t = "delim"

\* matter(content): [ok, data, body]; data maps the keys present to values.
\* ok = FALSE is the exception js-yaml throws on a malformed block.
Matter(text) ==
  LET lines == text.lines
  IN  IF lines = <<>> \/ lines[1].t # "delim"
      THEN [ok |-> TRUE, data |-> <<>>, body |-> lines]
      ELSE
        LET c == FirstIdx({j \in DOMAIN lines : IsDelim(lines[j])}, 2)
            close == IF c = 0 THEN Len(lines) + 1 ELSE c
            yaml == SubSeq(lines, 2, close - 1)
            wellFormed ==
              /\ \A i \in 1..Len(yaml) : yaml[i].t = "kv"
              /\ \A i, j \in 1..Len(yaml) : yaml[i].k = yaml[j].k => i = j
        IN  [ok |-> wellFormed,
             data |-> yaml,
             body |-> SubSeq(lines, close + 1, Len(lines))]

\* data.<key>, Undef when the key is absent
Field(data, key) ==
  IF \E i \in 1..Len(data) : data[i].k = key
  THEN data[CHOOSE i \in 1..Len(data) : data[i].k = key].v
  ELSE Undef

\* matter.stringify(content, data): the block, then the content, which gets
\* a final newline when it has none.
MatterStringify(body, data) ==
  [lines |-> (IF data = <<>> THEN <<>> ELSE <<Delim>> \o data \o <<Delim>>) \o body,
   nl |-> TRUE]

\* data.status || 'open'
StatusOrOpen(status) == IF status = Undef THEN <<"open">> ELSE status

\* the Task parseTask builds from what matter() returned
TaskOf(m, path) ==
  [ok |-> m.ok,
   status |-> StatusOrOpen(Field(m.data, "status")),
   title |-> Field(m.data, "title"),
   plan |-> Field(m.data, "plan"),
   workingDir |-> Undef,
   content |-> m.body,
   path |-> path]

\* core parseTask(filePath) on the text of the file
ParseTask(text, path) == TaskOf(Matter(text), path)

\* The frontmatter writeTask hands to matter.stringify: the task's own
\* properties in insertion order, undefined ones filtered out.
CleanFrontmatter(task) ==
  (IF task.status = Undef THEN <<>> ELSE <<KV("status", task.status)>>)
  \o (IF task.title = Undef THEN <<>> ELSE <<KV("title", task.title)>>)
  \o (IF task.plan = Undef THEN <<>> ELSE <<KV("plan", task.plan)>>)
  \o (IF task.workingDir = Undef THEN <<>> ELSE <<KV("workingDir", task.workingDir)>>)

\* core writeTask(task): the text written to task.path
WriteTaskText(task) == MatterStringify(task.content, CleanFrontmatter(task))

\* data.title || path.basename(filePath, '.md')
TitleOrStem(title, name) == IF title = Undef THEN Stem(name) ELSE title

\* the Task TaskService.parseTask builds from what matter() returned
ExtTaskOf(m, name) ==
  [ok |-> m.ok,
   id |-> Stem(name),
   status |-> StatusOrOpen(Field(m.data, "status")),
   title |-> TitleOrStem(Field(m.data, "title"), name),
   plan |-> Field(m.data, "plan"),
   workingDir |-> Field(m.data, "workingDir"),
   content |-> m.body]

\* TaskService.parseTask of the extension
ExtParseTask(text, name) == ExtTaskOf(Matter(text), name)

\* content.replace(/^status:\s*\w+$/m, `status: ${newStatus}`): the first
\* status line of the text, wherever it is, gets the new value.
IsStatusLine(l) == l.t = "kv" /\ l.k = "status" /\ Len(l.v) = 1

IsWorkingDirLine(l) == l.t = "kv" /\ l.k = "workingDir"

ReplaceStatus(lines, newStatus) ==
  LET i == FirstIdx({j \in DOMAIN lines : IsStatusLine(lines[j])}, 1)
  IN  IF i = 0 THEN lines
      ELSE [lines EXCEPT ![i] = KV("status", newStatus)]

\* The workingDir edit of updateTaskStatus: replace the first workingDir
\* line, else insert one after the first status line.
PatchWorkingDir(lines, workingDir) ==
  LET w == FirstIdx({j \in DOMAIN lines : IsWorkingDirLine(lines[j])}, 1)
      i == FirstIdx({j \in DOMAIN lines : IsStatusLine(lines[j])}, 1)
  IN  IF w # 0 THEN [lines EXCEPT ![w] = KV("workingDir", workingDir)]
      ELSE IF i = 0 THEN lines
      ELSE SubSeq(lines, 1, i) \o <<KV("workingDir", workingDir)>>
           \o SubSeq(lines, i + 1, Len(lines))

\* ------------------------------------------------------------------------
\* State
\* ------------------------------------------------------------------------

VARIABLES
  dirs,   \* dirs[d]: the directory tasks/<d> of the root exists
  files,  \* files[<<d, name>>]: the text of tasks/<d>/<name>
  proj,   \* proj[p]: what the project directory p holds (.sabin entry, own)
  svc,    \* svc[p]: the sabinDir/isLinked a TaskService on workspace p cached
  op,     \* op[w]: the status update writer w has in flight
  last,   \* the outcome of the operation that ended last
  watcher, \* the SabinFileWatcher of the extension: its timers and its clock
  heap    \* the Config objects of the core module: DEFAULT_CONFIG and copies

vars == <<dirs, files, proj, svc, op, last, watcher, heap>>

\* DEFAULT_CONFIG
DefaultConfig == [projectPrefix |-> <<"TASK">>, taskNumberPadding |-> 4]

\* The Config objects after the module is loaded: DEFAULT_CONFIG, no object
\* handed to a caller yet.  held[i] is the object of the i-th reference a
\* caller got; aliased tells that a caller holds DEFAULT_CONFIG itself.
NewHeap == [defaults |-> DefaultConfig, held |-> <<>>, aliased |-> FALSE]

\* a timer field that is undefined
NoTimer == [defined |-> FALSE, pending |-> FALSE, due |-> 0]

\* The watcher after its constructor: both timer fields undefined, the clock
\* at 0 ms, no event handled and the callback not invoked yet.
NewWatcher ==
  [now |-> 0, debounceTimer |-> NoTimer, renameDebounceTimer |-> NoTimer,
   disposed |-> FALSE, events |-> <<>>, calls |-> <<>>]

\* tasks/resolved is the directory of the earlier schema; nothing creates it.
DirNames == {"open", "completed", "resolved"}

\* The root whose task store is modelled, and the directories that use it.
Root == <<"w", ".sabin">>
LocalProject == <<"w">>
LinkedProject == <<"w", "b">>
Workspaces == {LocalProject, LinkedProject, Root}

\* config.json of the root, as readConfig / getConfig return it
Padding == 2
Config == [projectPrefix |-> <<"T">>, taskNumberPadding |-> Padding]

ValidStatuses == <<"open", "ready", "in_progress", "review", "completed">>

IsValidStatus(st) == \E i \in 1..Len(ValidStatuses) : ValidStatuses[i] = st

\* full path of a task file, as path.join builds it
TaskPath(sabinDir, d, name) == sabinDir \o <<"tasks", d, name>>

Has(f, d, name) == <<d, name>> \in DOMAIN f

Put(f, d, name, text) ==
  [x \in (DOMAIN f) \cup {<<d, name>>} |-> IF x = <<d, name>> THEN text ELSE f[x]]

Remove(f, d, name) == [x \in (DOMAIN f) \ {<<d, name>>} |-> f[x]]

NamesIn(f, d) == {x[2] : x \in {y \in DOMAIN f : y[1] = d}}

RECURSIVE SortNames(_)
SortNames(S) ==
  IF S = {} THEN <<>>
  ELSE LET m == CHOOSE x \in S : \A y \in S \ {x} : StrLess(x, y)
       IN  <<m>> \o SortNames(S \ {m})

\* fs.readdir / readdirSync / readDirectory of tasks/<d>
ListDir(f, d) == SortNames(NamesIn(f, d))

\* ------------------------------------------------------------------------
\* Numbering service
\* ------------------------------------------------------------------------

RECURSIVE MaxNumber(_, _, _)
\* the loop over the listed names that keeps the largest matched number
MaxNumber(names, prefix, maxNumber) ==
  IF names = <<>> THEN maxNumber
  ELSE LET match == MatchTaskFile(names[1], prefix)
           num == ParseInt(match)
       IN  MaxNumber(Tail(names), prefix,
                     IF match # <<>> /\ num > maxNumber THEN num ELSE maxNumber)

\* core getNextTaskNumber(tasksDir, config): both listings are inside one
\* try block, so a missing directory leaves maxNumber at 0.
GetNextTaskNumber(f, d, config) ==
  LET maxNumber ==
        IF d["open"] /\ d["completed"]
        THEN MaxNumber(ListDir(f, "open") \o ListDir(f, "completed"),
                       config.projectPrefix, 0)
        ELSE 0
  IN  PadStart(NumToStr(maxNumber + 1), config.taskNumberPadding)

\* TaskService.getNextTaskNumber(): one try block per directory.
ExtGetNextTaskNumber(f, d, config) ==
  LET afterOpen ==
        IF d["open"] THEN MaxNumber(ListDir(f, "open"), config.projectPrefix, 0)
        ELSE 0
      maxNumber ==
        IF d["completed"]
        THEN MaxNumber(ListDir(f, "completed"), config.projectPrefix, afterOpen)
        ELSE afterOpen
  IN  PadStart(NumToStr(maxNumber + 1), config.taskNumberPadding)

\* ------------------------------------------------------------------------
\* Records of the operations
\* ------------------------------------------------------------------------

NoText == [lines |-> <<>>, nl |-> FALSE]
NoFile == <<"", <<>>>>

\* what an operation left behind: its name, the directory it ran from and
\* its inputs, whether it succeeded, the error kind and its output
Outcome(name, at, id, status, ok, err, out) ==
  [op |-> name, at |-> at, id |-> id, status |-> status, ok |-> ok,
   err |-> err, out |-> out]

Failure(name, at, id, status, err) ==
  Outcome(name, at, id, status, FALSE, err, <<>>)

NoOutcome == Outcome("none", <<>>, <<>>, "", TRUE, "", <<>>)

Idle ==
  [kind |-> "idle", steps |-> <<>>, at |-> <<>>, id |-> <<>>, status |-> "",
   src |-> NoFile, dst |-> NoFile, text |-> NoText, pre |-> NoText]

Writers == {"w1", "w2"}

AllIdle == \A w \in Writers : op[w].kind = "idle"

\* ------------------------------------------------------------------------
\* CLI: sabin task update <id> <status>
\* ------------------------------------------------------------------------

\* a search that takes the last matching entry of the listing
FindLastFile(listing, taskId) ==
  LET S == {i \in 1..Len(listing) :
              Includes(listing[i], taskId) \/ listing[i] = FileName(taskId)}
  IN  IF S = {} THEN <<>>
      ELSE listing[CHOOSE i \in S : \A j \in S : j <= i]

\* a search that takes the first entry of the listing, whatever the id
FindAnyFile(listing, taskId) ==
  IF listing = <<>> THEN <<>> ELSE listing[1]

\* openFiles.find(f => f.includes(taskId) || f === `${taskId}.md`)
FindTaskFile(listing, taskId) ==
  LET S == {i \in 1..Len(listing) :
              Includes(listing[i], taskId) \/ listing[i] = FileName(taskId)}
  IN  IF S = {} THEN <<>>
      ELSE listing[CHOOSE i \in S : \A j \in S : i <= j]

\* The directory a status belongs to.
ShouldBeInCompleted(newStatus) == newStatus = "completed"

\* updateStatus up to the first write, in the stages of the code.  The
\* result tells what is left to do: [ok, err, src, dst, text, pre, move].
PlanFails(e) ==
  [ok |-> FALSE, err |-> e, src |-> NoFile, dst |-> NoFile,
   text |-> NoText, pre |-> NoText, move |-> FALSE]

\* the task is loaded: set the status, the workingDir under a link, and
\* decide whether the file has to move
UpdateLoaded(r, currentDir, taskFile, old, parsed, newStatus) ==
  IF ~parsed.ok THEN PlanFails("parse")
  ELSE
    [ok |-> TRUE, err |-> "",
     src |-> <<currentDir, taskFile>>,
     dst |-> <<IF ShouldBeInCompleted(newStatus) THEN "completed" ELSE "open",
               taskFile>>,
     text |-> WriteTaskText(
                [parsed EXCEPT
                   !.status = <<newStatus>>,
                   !.workingDir =
                     IF newStatus = "in_progress" /\ r.isLinked
                     THEN GetWorkingDirName(r.sabinDir, r.projectRoot)
                     ELSE @]),
     pre |-> old,
     move |-> ShouldBeInCompleted(newStatus) # (currentDir = "completed")]

\* the search is over: inOpen and inCompleted are the matches, <<>> if none
UpdateFound(f, r, inOpen, inCompleted, newStatus) ==
  IF inOpen # <<>>
  THEN UpdateLoaded(r, "open", inOpen, f[<<"open", inOpen>>],
                    ParseTask(f[<<"open", inOpen>>],
                              TaskPath(r.sabinDir, "open", inOpen)),
                    newStatus)
  ELSE IF inCompleted # <<>>
  THEN UpdateLoaded(r, "completed", inCompleted, f[<<"completed", inCompleted>>],
                    ParseTask(f[<<"completed", inCompleted>>],
                              TaskPath(r.sabinDir, "completed", inCompleted)),
                    newStatus)
  ELSE PlanFails("not_found")

\* the match of taskId in tasks/<dir> of the resolved root, <<>> if none
FindIn(f, d, r, dir, taskId) ==
  IF r.sabinDir = Root /\ d[dir] THEN FindTaskFile(ListDir(f, dir), taskId)
  ELSE <<>>

UpdateResolved(f, d, r, taskId, newStatus) ==
  IF ~r.ok THEN PlanFails(r.err)
  ELSE UpdateFound(f, r, FindIn(f, d, r, "open", taskId),
                   FindIn(f, d, r, "completed", taskId), newStatus)

UpdateStatusPlan(f, d, entry, cwd, taskId, newStatus) ==
  IF ~IsValidStatus(newStatus) THEN PlanFails("invalid_status")
  ELSE UpdateResolved(f, d, ResolveSabinDir(entry, cwd), taskId, newStatus)

\* a move that unlinks the old path before it writes the new one
MoveStepsUnlinkFirst == <<"mkdir", "unlink", "write">>

\* The filesystem steps of updateStatus, in the order the code awaits them:
\* a move makes the new directory, writes the new path, unlinks the old one.
MoveSteps == <<"mkdir", "write", "unlink">>

InPlaceSteps == <<"write">>

CliUpdateBegin(w, cwd, taskId, newStatus) ==
  /\ AllIdle
  /\ LET plan == UpdateStatusPlan(files, dirs, proj[cwd].sabin, cwd, taskId, newStatus)
     IN  IF ~plan.ok
         THEN /\ last' = Failure("cliUpdate", cwd, taskId, newStatus, plan.err)
              /\ UNCHANGED op
         ELSE /\ op' = [op EXCEPT ![w] =
                          [kind |-> "cliUpdate",
                           steps |-> IF plan.move THEN MoveSteps ELSE InPlaceSteps,
                           at |-> cwd, id |-> taskId, status |-> newStatus,
                           src |-> plan.src, dst |-> plan.dst,
                           text |-> plan.text, pre |-> plan.pre]]
              /\ last' = NoOutcome
  /\ UNCHANGED <<dirs, files, proj, svc, watcher, heap>>

AtStep(w, kind, step) ==
  /\ op[w].kind = kind
  /\ op[w].steps # <<>>
  /\ Head(op[w].steps) = step

\* the operation of writer w ends: with an error, or after its last step
UpdateEnds(w, ok, err) ==
  /\ op' = [op EXCEPT ![w] = Idle]
  /\ last' = Outcome(op[w].kind, op[w].at, op[w].id, op[w].status, ok, err,
                     <<>>)

UpdateAdvances(w) ==
  IF Tail(op[w].steps) = <<>>
  THEN UpdateEnds(w, TRUE, "")
  ELSE /\ op' = [op EXCEPT ![w].steps = Tail(@)]
       /\ UNCHANGED last

\* await fs.mkdir(newDir, { recursive: true })
CliUpdateMkdir(w) ==
  /\ AtStep(w, "cliUpdate", "mkdir")
  /\ dirs' = [dirs EXCEPT ![op[w].dst[1]] = TRUE]
  /\ UpdateAdvances(w)
  /\ UNCHANGED <<files, proj, svc, watcher, heap>>

\* await writeTask(task): to the new path of a move, else in place
CliUpdateWrite(w) ==
  /\ AtStep(w, "cliUpdate", "write")
  /\ IF ~dirs[op[w].dst[1]]
     THEN /\ UNCHANGED files
          /\ UpdateEnds(w, FALSE, "io")
     ELSE /\ files' = Put(files, op[w].dst[1], op[w].dst[2], op[w].text)
          /\ UpdateAdvances(w)
  /\ UNCHANGED <<dirs, proj, svc, watcher, heap>>

\* await fs.unlink(taskPath)
CliUpdateUnlink(w) ==
  /\ AtStep(w, "cliUpdate", "unlink")
  /\ IF Has(files, op[w].src[1], op[w].src[2])
     THEN /\ files' = Remove(files, op[w].src[1], op[w].src[2])
          /\ UpdateAdvances(w)
     ELSE /\ UNCHANGED files
          /\ UpdateEnds(w, FALSE, "io")
  /\ UNCHANGED <<dirs, proj, svc, watcher, heap>>

\* ------------------------------------------------------------------------
\* CLI: sabin task create, sabin task list
\* ------------------------------------------------------------------------

\* what the user types for a new task
NewTitle == <<"A">>
NewBody == <<Txt("x")>>

\* the directories createTask probes for a file named like the custom id
CliDuplicateDirs == <<"open", "resolved">>

\* The first directory of the probe order that holds the name, or "".
FirstDirWith(f, probe, name) ==
  LET S == {i \in 1..Len(probe) : Has(f, probe[i], name)}
  IN  IF S = {} THEN "" ELSE probe[CHOOSE i \in S : \A j \in S : i <= j]

\* createTask(options) run in cwd; number = <<>> when --number is not given.
\* The result: [ok, err, name, text]; the store is written only when ok.
CliCreatePlan(f, dAfterMkdir, number) ==
  LET customId == Trim(number)
      Fail(e) == [ok |-> FALSE, err |-> e, name |-> <<>>, text |-> NoText]
      Make(taskId) ==
        [ok |-> TRUE, err |-> "", name |-> FileName(taskId),
         text |-> WriteTaskText([status |-> <<"open">>, title |-> NewTitle,
                                 plan |-> Undef, workingDir |-> Undef,
                                 content |-> NewBody])]
  IN  IF number # <<>>
      THEN IF customId = <<>> THEN Fail("empty_id")
           ELSE IF FirstDirWith(f, CliDuplicateDirs, FileName(customId)) # ""
                THEN Fail("duplicate")
           ELSE Make(customId)
      ELSE Make(Config.projectPrefix \o <<"-">>
                \o GetNextTaskNumber(f, dAfterMkdir, Config))

CliCreateTask(cwd, number) ==
  /\ AllIdle
  /\ Cardinality(DOMAIN files) < MaxFiles
  /\ number = <<>> =>
       ParseInt(GetNextTaskNumber(files, [dirs EXCEPT !["open"] = TRUE], Config))
         <= MaxTaskNumber
  /\ PathJoin(cwd, ".sabin") = Root \/ proj[cwd].sabin.kind = "file"
  /\ IF proj[cwd].sabin.kind = "file"
     THEN \* fs.mkdir('.sabin/tasks/open') under a link file fails
          /\ last' = Failure("cliCreate", cwd, number, "", "io")
          /\ UNCHANGED <<dirs, files, proj>>
     ELSE LET dAfter == [dirs EXCEPT !["open"] = TRUE]
              plan == CliCreatePlan(files, dAfter, number)
          IN  /\ dirs' = dAfter
              /\ proj' = [proj EXCEPT ![cwd].sabin = SabinDirEntry]
              /\ IF plan.ok
                 THEN /\ files' = Put(files, "open", plan.name, plan.text)
                      /\ last' = Outcome("cliCreate", cwd, number, "open", TRUE, "",
                                         plan.name)
                 ELSE /\ UNCHANGED files
                      /\ last' = Failure("cliCreate", cwd, number, "", plan.err)
  /\ UNCHANGED <<svc, op, watcher, heap>>

IsMd(name) == EndsWith(name, MdExt)

RECURSIVE ParseUntilThrow(_, _, _)
\* the loop of listTasks over one directory: the names whose files parsed
\* before the first exception, which the surrounding try swallows
ParseUntilThrow(f, dir, names) ==
  IF names = <<>> THEN <<>>
  ELSE LET task == ParseTask(f[<<dir, names[1]>>], TaskPath(Root, dir, names[1]))
       IN  IF ~task.ok THEN <<>>
           ELSE <<[name |-> names[1], status |-> task.status]>>
                \o ParseUntilThrow(f, dir, Tail(names))

\* extractTaskNumber(filepath, prefix): the first `prefix-digits` of the name
ExtractTaskNumber(name, prefix) ==
  LET starts == {i \in 1..Len(name) :
                   /\ i + Len(prefix) + 1 <= Len(name)
                   /\ SubSeq(name, i, i + Len(prefix) - 1) = prefix
                   /\ name[i + Len(prefix)] = "-"
                   /\ IsDigit(name[i + Len(prefix) + 1])}
  IN  IF starts = {} THEN 0
      ELSE LET i == CHOOSE x \in starts : \A y \in starts : x <= y
               from == i + Len(prefix) + 1
               ends == {e \in from..Len(name) :
                          /\ \A x \in from..e : IsDigit(name[x])
                          /\ e = Len(name) \/ ~IsDigit(name[e + 1])}
           IN  ParseInt(SubSeq(name, from, CHOOSE e \in ends : TRUE))

RECURSIVE InsertByNumber(_, _)
InsertByNumber(sorted, t) ==
  IF sorted = <<>> THEN <<t>>
  ELSE IF ExtractTaskNumber(t.name, Config.projectPrefix)
          < ExtractTaskNumber(sorted[1].name, Config.projectPrefix)
       THEN <<t>> \o sorted
       ELSE <<sorted[1]>> \o InsertByNumber(Tail(sorted), t)

RECURSIVE SortByNumber(_)
\* filteredTasks.sort((a, b) => aNum - bNum), a stable sort
SortByNumber(tasks) ==
  IF tasks = <<>> THEN <<>>
  ELSE InsertByNumber(SortByNumber(SubSeq(tasks, 1, Len(tasks) - 1)),
                      tasks[Len(tasks)])

NamesOf(tasks) == [i \in 1..Len(tasks) |-> tasks[i].name]

\* listTasks(options) run in cwd: the file names it prints
CliListNames(f, d, here, status) ==
  LET openTasks ==
        IF here /\ d["open"]
        THEN ParseUntilThrow(f, "open", SelectSeq(ListDir(f, "open"), IsMd))
        ELSE <<>>
      completedTasks ==
        IF here /\ d["completed"]
        THEN ParseUntilThrow(f, "completed", SelectSeq(ListDir(f, "completed"), IsMd))
        ELSE <<>>
      Wanted(t) == status = "" \/ t.status = <<status>>
  IN  NamesOf(SortByNumber(SelectSeq(openTasks \o completedTasks, Wanted)))

CliListTasks(cwd, status) ==
  /\ AllIdle
  /\ last' =
       IF status # "" /\ ~IsValidStatus(status)
       THEN Failure("cliList", cwd, <<>>, status, "invalid_status")
       ELSE Outcome("cliList", cwd, <<>>, status, TRUE, "",
                    CliListNames(files, dirs,
                                 PathJoin(cwd, ".sabin") = Root
                                   /\ proj[cwd].sabin.kind = "dir",
                                 status))
  /\ UNCHANGED <<dirs, files, proj, svc, op, watcher, heap>>

\* ------------------------------------------------------------------------
\* Extension: TaskService
\* ------------------------------------------------------------------------

NoCache == [cached |-> FALSE, sabinDir |-> <<>>, isLinked |-> FALSE]

\* TaskService.resolveSabinDir(): the cached answer when there is one
ExtResolve(cache, project, workspaceRoot) ==
  IF cache.cached THEN [sabinDir |-> cache.sabinDir, isLinked |-> cache.isLinked]
  ELSE ExtResolveFresh(project.sabin, project.own, workspaceRoot)

Cached(r) == [cached |-> TRUE, sabinDir |-> r.sabinDir, isLinked |-> r.isLinked]

\* filePath.includes('/completed/')
PathIncludesCompleted(path) ==
  \E i \in 1..(Len(path) - 1) : path[i] = "completed"

ExtSearchDirs == <<"open", "completed">>

\* updateTaskStatus up to and including fs.writeFileSync(filePath, content)
ExtUpdatePlan(f, r, workspaceRoot, taskId, newStatus) ==
  LET name == FileName(taskId)
      dir == IF r.sabinDir = Root THEN FirstDirWith(f, ExtSearchDirs, name) ELSE ""
  IN  IF dir = ""
      THEN [ok |-> FALSE, err |-> "not_found", src |-> NoFile, dst |-> NoFile,
            text |-> NoText, pre |-> NoText, move |-> FALSE]
      ELSE
        LET filePath == TaskPath(r.sabinDir, dir, name)
            old == f[<<dir, name>>]
            withStatus == ReplaceStatus(old.lines, <<newStatus>>)
            content ==
              IF newStatus = "in_progress" /\ r.isLinked
              THEN PatchWorkingDir(withStatus,
                                   ExtGetWorkingDirName(workspaceRoot, r.sabinDir))
              ELSE withStatus
            toCompleted == newStatus = "completed" /\ ~PathIncludesCompleted(filePath)
            toOpen == newStatus # "completed" /\ PathIncludesCompleted(filePath)
        IN  [ok |-> TRUE, err |-> "",
             src |-> <<dir, name>>,
             dst |-> IF toCompleted THEN <<"completed", name>>
                     ELSE IF toOpen THEN <<"open", name>>
                     ELSE <<dir, name>>,
             text |-> [lines |-> content, nl |-> old.nl],
             pre |-> old,
             move |-> toCompleted \/ toOpen]

\* what is left after the write when the file has to move
ExtMoveSteps == <<"rename">>

ExtUpdateTaskStatus(w, ws, taskId, newStatus) ==
  /\ AllIdle
  /\ LET r == ExtResolve(svc[ws], proj[ws], ws)
         plan == ExtUpdatePlan(files, r, ws, taskId, newStatus)
     IN  /\ UNCHANGED <<watcher, heap>>
         /\ svc' = [svc EXCEPT ![ws] = Cached(r)]
         /\ IF ~plan.ok
            THEN /\ last' = Failure("extUpdate", ws, taskId, newStatus, plan.err)
                 /\ UNCHANGED <<files, op>>
            ELSE /\ files' = Put(files, plan.src[1], plan.src[2], plan.text)
                 /\ IF plan.move
                    THEN /\ op' = [op EXCEPT ![w] =
                                     [kind |-> "extUpdate", steps |-> ExtMoveSteps,
                                      at |-> ws, id |-> taskId,
                                      status |-> newStatus,
                                      src |-> plan.src, dst |-> plan.dst,
                                      text |-> plan.text, pre |-> plan.pre]]
                         /\ last' = NoOutcome
                    ELSE /\ last' = Outcome("extUpdate", ws, taskId, newStatus, TRUE,
                                            "", <<>>)
                         /\ UNCHANGED op
  /\ UNCHANGED <<dirs, proj>>

\* moveTaskToCompleted / moveTaskToOpen: createDirectory, then rename, which
\* refuses to replace an existing target
ExtUpdateRename(w) ==
  /\ AtStep(w, "extUpdate", "rename")
  /\ dirs' = [dirs EXCEPT ![op[w].dst[1]] = TRUE]
  /\ IF Has(files, op[w].dst[1], op[w].dst[2])
          \/ ~Has(files, op[w].src[1], op[w].src[2])
     THEN /\ UNCHANGED files
          /\ UpdateEnds(w, FALSE, "rename")
     ELSE /\ files' = Put(Remove(files, op[w].src[1], op[w].src[2]),
                          op[w].dst[1], op[w].dst[2], files[op[w].src])
          /\ UpdateAdvances(w)
  /\ UNCHANGED <<proj, svc, watcher, heap>>

\* quoteYaml(value): the titles of the model hold none of the characters
\* that make it add quotes
QuoteYaml(value) == value

\* the text createTask of the extension writes
ExtNewText(title, workingDir) ==
  [lines |-> <<Delim, KV("status", <<"open">>), KV("title", QuoteYaml(title))>>
             \o (IF workingDir = Undef THEN <<>>
                 ELSE <<KV("workingDir", workingDir)>>)
             \o <<Delim, Txt("")>> \o NewBody,
   nl |-> TRUE]

ExtDuplicateDirs == <<"open", "completed">>

\* createTask(title, description, taskNumber) after the two createDirectory
\* calls; taskNumber = <<>> when none is given
ExtCreatePlan(f, dAfter, r, workspaceRoot, taskNumber) ==
  LET customId == Trim(taskNumber)
      dup == FirstDirWith(f, ExtDuplicateDirs, FileName(customId))
      wd == ExtGetWorkingDirName(workspaceRoot, r.sabinDir)
      Fail(e) == [ok |-> FALSE, err |-> e, name |-> <<>>, text |-> NoText]
      Make(taskId) ==
        [ok |-> TRUE, err |-> "", name |-> FileName(taskId),
         text |-> ExtNewText(NewTitle,
                             IF r.isLinked /\ wd # <<".">> THEN wd ELSE Undef)]
  IN  IF taskNumber # <<>>
      THEN IF customId = <<>> THEN Fail("empty_id")
           ELSE IF dup # "" THEN Fail("duplicate")
           ELSE Make(customId)
      ELSE Make(Config.projectPrefix \o <<"-">>
                \o ExtGetNextTaskNumber(f, dAfter, Config))

ExtCreateTask(ws, taskNumber) ==
  /\ AllIdle
  /\ Cardinality(DOMAIN files) < MaxFiles
  /\ taskNumber = <<>> =>
       ParseInt(ExtGetNextTaskNumber(files, dirs, Config)) <= MaxTaskNumber
  /\ LET r == ExtResolve(svc[ws], proj[ws], ws)
         dAfter == [dirs EXCEPT !["open"] = TRUE, !["completed"] = TRUE]
         plan == ExtCreatePlan(files, dAfter, r, ws, taskNumber)
     IN  /\ r.sabinDir = Root
         /\ UNCHANGED <<watcher, heap>>
         /\ svc' = [svc EXCEPT ![ws] = Cached(r)]
         /\ dirs' = dAfter
         /\ IF plan.ok
            THEN /\ files' = Put(files, "open", plan.name, plan.text)
                 /\ last' = Outcome("extCreate", ws, taskNumber, "open", TRUE, "",
                                    plan.name)
            ELSE /\ UNCHANGED files
                 /\ last' = Failure("extCreate", ws, taskNumber, "", plan.err)
  /\ UNCHANGED <<proj, op>>

\* the tasks getTasks has pushed when every file of the listing parsed
ExtParsed(parsed, names) ==
  [ok |-> \A i \in 1..Len(names) : parsed[i].ok,
   tasks |-> [i \in 1..Len(names) |->
                [name |-> names[i], status |-> parsed[i].status]]]

\* the loop of getTasks over the .md files of one directory: [ok, tasks]; a
\* parse exception ends getTasks
ExtParseAll(f, dir, names) ==
  ExtParsed([i \in 1..Len(names) |-> ExtParseTask(f[<<dir, names[i]>>], names[i])],
            names)

\* fs.existsSync(dir) ? the tasks of dir : none
ExtTasksIn(f, d, r, dir) ==
  IF r.sabinDir = Root /\ d[dir]
  THEN ExtParseAll(f, dir, SelectSeq(ListDir(f, dir), IsMd))
  ELSE [ok |-> TRUE, tasks |-> <<>>]

\* tasks.filter(task => task.status === status) when a status is given
ExtFiltered(inOpen, inCompleted, status) ==
  LET Wanted(t) == status = "" \/ t.status = <<status>>
  IN  [ok |-> inOpen.ok /\ inCompleted.ok,
       names |-> NamesOf(SelectSeq(inOpen.tasks \o inCompleted.tasks, Wanted))]

\* getTasks(status): [ok, names]
ExtGetTasks(f, d, r, status) ==
  ExtFiltered(ExtTasksIn(f, d, r, "open"), ExtTasksIn(f, d, r, "completed"), status)

ExtListTasks(ws, status) ==
  /\ AllIdle
  /\ LET r == ExtResolve(svc[ws], proj[ws], ws)
         got == ExtGetTasks(files, dirs, r, status)
     IN  /\ UNCHANGED <<watcher, heap>>
         /\ svc' = [svc EXCEPT ![ws] = Cached(r)]
         /\ last' = IF got.ok
                    THEN Outcome("extList", ws, <<>>, status, TRUE, "", got.names)
                    ELSE Failure("extList", ws, <<>>, status, "parse")
  /\ UNCHANGED <<dirs, files, proj, op>>

\* a delete that removes every file of that name, in both directories
ExtDeleteAll(d, name) ==
  /\ AllIdle
  /\ files' = [x \in {y \in DOMAIN files : y[2] # name} |-> files[x]]
  /\ last' = Outcome("extDelete", <<>>, name, "", TRUE, "", <<>>)
  /\ UNCHANGED <<dirs, proj, svc, op, watcher, heap>>

\* deleteTask(taskPath) for the path of tasks/<d>/<name>
ExtDeleteTask(d, name) ==
  /\ AllIdle
  /\ IF Has(files, d, name)
     THEN /\ files' = Remove(files, d, name)
          /\ last' = Outcome("extDelete", <<>>, name, "", TRUE, "", <<>>)
     ELSE /\ UNCHANGED files
          /\ last' = Failure("extDelete", <<>>, name, "", "not_found")
  /\ UNCHANGED <<dirs, proj, svc, op, watcher, heap>>

\* ------------------------------------------------------------------------
\* The task store: initial states and steps
\* ------------------------------------------------------------------------

IdJ1 == <<"J", "-", "1">>
Blank2 == <<" ", " ">>

\* --number of a create: none, an external id, blanks only
NumberInputs == {<<>>, IdJ1, Blank2}

\* the id of an update: the external id a create may have used
UpdateIds == {IdJ1}

StatusInputs == {"in_progress", "completed", "bogus"}

ListFilters == {"", "open"}

\* a task file written by hand, without a status line and a final newline
HandWritten ==
  [lines |-> <<Delim, KV("title", <<"A">>), Delim, Txt("x")>>, nl |-> FALSE]

\* a task file whose frontmatter block is not well-formed YAML
Malformed ==
  [lines |-> <<Delim, KV("status", <<"open">>), KV("title", <<"A">>), BadLine,
               Delim, Txt("x")>>,
   nl |-> TRUE]

BothDirs == [d \in DirNames |-> d # "resolved"]
NoDirs == [d \in DirNames |-> FALSE]

OneFile(d, name, text) == Put(<<>>, d, name, text)

\* the stores an operation sequence may start from: after sabin init, before
\* any directory exists, and with one hand-made file in tasks/open
InitialStores ==
  { [dirs |-> BothDirs, files |-> <<>>],
    [dirs |-> NoDirs, files |-> <<>>],
    [dirs |-> BothDirs, files |-> OneFile("open", FileName(IdJ1), HandWritten)],
    [dirs |-> BothDirs, files |-> OneFile("open", FileName(IdJ1), Malformed)] }

MainProjects ==
  [p \in Workspaces |->
     IF p = LocalProject THEN [sabin |-> SabinDirEntry, own |-> FALSE]
     ELSE IF p = LinkedProject
     THEN [sabin |-> SabinLink([abs |-> FALSE, segs |-> <<"..", ".sabin">>]),
           own |-> FALSE]
     ELSE [sabin |-> SabinNone, own |-> TRUE]]

CliProjects == {LocalProject, LinkedProject}

\* the workspaces with a TaskService on the root
ExtWorkspaces == {LocalProject, LinkedProject}

\* the one writer of single-writer use
SerialWriter == "w1"

Init ==
  /\ \E st \in InitialStores : dirs = st.dirs /\ files = st.files
  /\ proj = MainProjects
  /\ svc = [p \in Workspaces |->
              Cached(ExtResolveFresh(MainProjects[p].sabin, MainProjects[p].own, p))]
  /\ op = [w \in Writers |-> Idle]
  /\ watcher = NewWatcher
  /\ heap = NewHeap
  /\ last = NoOutcome

DoCliCreate == \E cwd \in CliProjects, n \in NumberInputs : CliCreateTask(cwd, n)

DoCliUpdate ==
  \E cwd \in CliProjects, id \in UpdateIds, st \in StatusInputs :
    CliUpdateBegin(SerialWriter, cwd, id, st)

DoCliMkdir == \E w \in Writers : CliUpdateMkdir(w)

DoCliWrite == \E w \in Writers : CliUpdateWrite(w)

DoCliUnlink == \E w \in Writers : CliUpdateUnlink(w)

DoCliList == \E cwd \in CliProjects, st \in ListFilters : CliListTasks(cwd, st)

DoExtCreate == \E ws \in ExtWorkspaces, n \in NumberInputs : ExtCreateTask(ws, n)

DoExtUpdate ==
  \E ws \in ExtWorkspaces, id \in UpdateIds, st \in StatusInputs :
    ExtUpdateTaskStatus(SerialWriter, ws, id, st)

DoExtRename == \E w \in Writers : ExtUpdateRename(w)

DoExtList == \E ws \in ExtWorkspaces, st \in ListFilters : ExtListTasks(ws, st)

\* the tree view deletes the file of a task it shows
DoExtDelete == \E x \in DOMAIN files : ExtDeleteTask(x[1], x[2])

Next ==
  \/ DoCliCreate
  \/ DoCliUpdate
  \/ DoCliMkdir
  \/ DoCliWrite
  \/ DoCliUnlink
  \/ DoCliList
  \/ DoExtCreate
  \/ DoExtUpdate
  \/ DoExtRename
  \/ DoExtList
  \/ DoExtDelete

Spec == Init /\ [][Next]_vars

\* ------------------------------------------------------------------------
\* The .sabin resolver: projects whose .sabin entry varies (SpecLink)
\* ------------------------------------------------------------------------

\* the projects whose .sabin is resolved, and what it may be at the start
LinkProjects == {LocalProject, LinkedProject}

SabinEntries ==
  { SabinNone, SabinDirEntry,
    SabinLink([abs |-> FALSE, segs |-> <<"..", ".sabin">>]),
    SabinLink([abs |-> TRUE, segs |-> Root]),
    SabinBadJson, SabinNoField }

\* the shared roots `sabin link` is pointed at
SharedRoot == <<"w", "s">>
LinkTargets == {Root, SharedRoot, LinkedProject}

LinkInit ==
  /\ dirs = BothDirs
  /\ files = <<>>
  /\ \E a, b \in SabinEntries :
       proj = [p \in Workspaces |->
                 IF p = LocalProject THEN [sabin |-> a, own |-> FALSE]
                 ELSE IF p = LinkedProject THEN [sabin |-> b, own |-> FALSE]
                 ELSE [sabin |-> SabinNone, own |-> TRUE]]
  /\ svc = [p \in Workspaces |-> NoCache]
  /\ op = [w \in Writers |-> Idle]
  /\ watcher = NewWatcher
  /\ heap = NewHeap
  /\ last = NoOutcome

\* core resolveSabinDir(p); the output is <<sabinDir, isLinked>>
CoreResolveSabinDir(p) ==
  /\ LET r == ResolveSabinDir(proj[p].sabin, p)
     IN  last' = IF r.ok
                 THEN Outcome("resolveSabinDir", p, <<>>, "", TRUE, "",
                              <<r.sabinDir, r.isLinked>>)
                 ELSE Failure("resolveSabinDir", p, <<>>, "", r.err)
  /\ UNCHANGED <<dirs, files, proj, svc, op, watcher, heap>>

\* TaskService.resolveSabinDir() of a service on workspace p
ExtResolveSabinDir(p) ==
  /\ LET r == ExtResolve(svc[p], proj[p], p)
     IN  /\ UNCHANGED <<watcher, heap>>
         /\ svc' = [svc EXCEPT ![p] = Cached(r)]
         /\ last' = Outcome("extResolveSabinDir", p, <<>>, "", TRUE, "",
                            <<r.sabinDir, r.isLinked>>)
  /\ UNCHANGED <<dirs, files, proj, op>>

\* SabinFileWatcher.resolveSabinDir(p); the output is <<sabinDir>>
WatcherResolve(p) ==
  /\ last' = Outcome("watcherResolveSabinDir", p, <<>>, "", TRUE, "",
                     <<WatcherResolveSabinDir(proj[p].sabin, p)>>)
  /\ UNCHANGED <<dirs, files, proj, svc, op, watcher, heap>>

\* writeSabinLink(projectRoot, targetSabinDir): fs.writeFile of the JSON
\* {sabinDir: path.relative(projectRoot, targetSabinDir)}, which fails on a
\* directory; an empty relative path is a falsy sabinDir
WriteSabinLink(projectRoot, targetSabinDir) ==
  /\ LET relativePath == PathRelative(projectRoot, targetSabinDir)
     IN  IF proj[projectRoot].sabin.kind = "dir"
         THEN /\ last' = Failure("writeSabinLink", projectRoot, <<>>, "", "io")
              /\ UNCHANGED proj
         ELSE /\ proj' = [proj EXCEPT ![projectRoot].sabin =
                            [kind |-> "file", json |-> TRUE,
                             field |-> relativePath # <<>>,
                             target |-> [abs |-> FALSE, segs |-> relativePath]]]
              /\ last' = Outcome("writeSabinLink", projectRoot, <<>>, "", TRUE, "",
                                 targetSabinDir)
  /\ UNCHANGED <<dirs, files, svc, op, watcher, heap>>

DoCoreResolve == \E p \in LinkProjects : CoreResolveSabinDir(p)

DoExtResolve == \E p \in LinkProjects : ExtResolveSabinDir(p)

DoWatcherResolve == \E p \in LinkProjects : WatcherResolve(p)

DoWriteSabinLink ==
  \E p \in LinkProjects, t \in LinkTargets : WriteSabinLink(p, t)

LinkNext ==
  \/ DoCoreResolve
  \/ DoExtResolve
  \/ DoWatcherResolve
  \/ DoWriteSabinLink

SpecLink == LinkInit /\ [][LinkNext]_vars

\* ------------------------------------------------------------------------
\* The numbering service over arbitrary directory contents (SpecNum)
\* ------------------------------------------------------------------------

\* file names a task directory may hold: numbered ids of the prefix, an id
\* of another prefix, a suffix that is no number, a longer prefix
NumNames ==
  { <<"T", "-", "0", "1", ".", "m", "d">>,
    <<"T", "-", "0", "2", ".", "m", "d">>,
    <<"T", "-", "9", "9", ".", "m", "d">>,
    <<"J", "-", "7", ".", "m", "d">>,
    <<"T", "-", "a", ".", "m", "d">>,
    <<"A", "T", "-", "0", "9", ".", "m", "d">> }

NumInit ==
  /\ \E o, c \in BOOLEAN :
       dirs = [d \in DirNames |-> (d = "open" /\ o) \/ (d = "completed" /\ c)]
  /\ \E S \in SUBSET ({"open", "completed"} \X NumNames) :
       /\ \A x \in S : dirs[x[1]]
       /\ files = [x \in S |-> HandWritten]
  /\ proj = MainProjects
  /\ svc = [p \in Workspaces |-> NoCache]
  /\ op = [w \in Writers |-> Idle]
  /\ watcher = NewWatcher
  /\ heap = NewHeap
  /\ last = NoOutcome

\* core getNextTaskNumber(tasksDir, config)
CoreGetNextTaskNumber ==
  /\ last' = Outcome("getNextTaskNumber", <<>>, <<>>, "", TRUE, "",
                     GetNextTaskNumber(files, dirs, Config))
  /\ UNCHANGED <<dirs, files, proj, svc, op, watcher, heap>>

\* TaskService.getNextTaskNumber()
ExtNextTaskNumber ==
  /\ last' = Outcome("extGetNextTaskNumber", <<>>, <<>>, "", TRUE, "",
                     ExtGetNextTaskNumber(files, dirs, Config))
  /\ UNCHANGED <<dirs, files, proj, svc, op, watcher, heap>>

NumNext ==
  \/ CoreGetNextTaskNumber
  \/ ExtNextTaskNumber
  \/ DoExtDelete

SpecNum == NumInit /\ [][NumNext]_vars

\* ------------------------------------------------------------------------
\* Properties of the task store, checked under Spec
\* ------------------------------------------------------------------------

TaskDirs == {"open", "completed"}

UpdateOps == {"cliUpdate", "extUpdate"}
CreateOps == {"cliCreate", "extCreate"}
ListOps == {"cliList", "extList"}

\* what a reader finds in the frontmatter of a text
RecordedStatus(text) ==
  LET st == Field(Matter(text).data, "status")
  IN  IF st = Undef THEN <<"open">> ELSE st

RecordedWorkingDir(text) == Field(Matter(text).data, "workingDir")

\* the directories of the store that hold a file of that name
DirsHolding(f, name) == {d \in TaskDirs : Has(f, d, name)}

\* This step ends a status update with success.
UpdateSucceeds == last'.op \in UpdateOps /\ last'.ok

\* The update that ends in this step: the file it found, the file it leaves
\* and the text it found.  An update with filesystem steps left is in op; the
\* extension's update in place is one step.
WasInFlight == op[SerialWriter].kind # "idle"

UpdatedFrom ==
  IF WasInFlight THEN op[SerialWriter].src
  ELSE <<FirstDirWith(files, ExtSearchDirs, FileName(last'.id)), FileName(last'.id)>>

UpdatedTo == IF WasInFlight THEN op[SerialWriter].dst ELSE UpdatedFrom

TextBefore == IF WasInFlight THEN op[SerialWriter].pre ELSE files[UpdatedFrom]

\* C1: after every successful status update of a task to status s, exactly
\* one file of the task's name exists in tasks/open and tasks/completed
\* together, in tasks/completed when s is completed and in tasks/open
\* otherwise.
C1_OneFileInImpliedDir ==
  [][UpdateSucceeds =>
       DirsHolding(files', UpdatedTo[2])
         = {IF last'.status = "completed" THEN "completed" ELSE "open"}]_vars

\* C2: a create with a custom id whose file <id>.md is in tasks/open or in
\* tasks/completed fails, and the step leaves every task file as it was.
C2_DuplicateIdFails ==
  [][(/\ last'.op \in CreateOps
      /\ Trim(last'.id) # <<>>
      /\ DirsHolding(files, FileName(Trim(last'.id))) # {})
     => (~last'.ok /\ files' = files)]_vars

\* C3: a successful status update to a status other than in_progress leaves
\* the workingDir recorded in the task file as it was.
C3_WorkingDirKept ==
  [][(/\ UpdateSucceeds
      /\ last'.status # "in_progress"
      /\ RecordedWorkingDir(TextBefore) # Undef)
     => (/\ UpdatedTo \in DOMAIN files'
         /\ RecordedWorkingDir(files'[UpdatedTo]) = RecordedWorkingDir(TextBefore))]_vars

\* C4: while a status update moves a task between tasks/open and
\* tasks/completed, after each of its filesystem steps a file of the task
\* with its old or its new text exists in one of the two, and the step that
\* removes the old file finds the new file written.
C4_WriteBeforeDelete ==
  [][\A w \in Writers :
       (op[w].kind # "idle" /\ op[w].src # op[w].dst) =>
         /\ \E d \in TaskDirs :
              /\ Has(files', d, op[w].src[2])
              /\ files'[<<d, op[w].src[2]>>] \in {op[w].pre, op[w].text}
         /\ (op[w].src \in DOMAIN files /\ op[w].src \notin DOMAIN files') =>
              (op[w].dst \in DOMAIN files' /\ files'[op[w].dst] = op[w].text)]_vars

\* C4 witness: a move of the CLI stands before its unlink with the new file
\* written and the old file still there.
C4_BothCopiesBeforeUnlink ==
  /\ AtStep(SerialWriter, "cliUpdate", "unlink")
  /\ op[SerialWriter].src \in DOMAIN files
  /\ op[SerialWriter].dst \in DOMAIN files
  /\ files[op[SerialWriter].dst] = op[SerialWriter].text

\* C5: a status update with a status outside the valid set is rejected:
\* it fails, and it writes, moves or deletes nothing.
C5_InvalidStatusRejected ==
  [][/\ (last'.op \in UpdateOps /\ ~IsValidStatus(last'.status)) =>
          (/\ ~last'.ok
           /\ files' = files
           /\ dirs' = dirs)
     /\ \A w \in Writers :
          op'[w].kind # "idle" => IsValidStatus(op'[w].status)]_vars

\* C6: once the operations have completed, every task file that parses lies
\* in tasks/completed exactly when its recorded status is completed, and a
\* create that succeeds leaves its file in tasks/open with status open.
C6_PlacementMatchesStatus ==
  [][AllIdle' =>
       /\ \A x \in DOMAIN files' :
            Matter(files'[x]).ok =>
              ((x[1] = "completed") <=> (RecordedStatus(files'[x]) = <<"completed">>))
       /\ (last'.op \in CreateOps /\ last'.ok) =>
            (/\ <<"open", last'.out>> \in DOMAIN files'
             /\ RecordedStatus(files'[<<"open", last'.out>>]) = <<"open">>)]_vars

\* the task files with a malformed frontmatter block
CorruptFiles(f) == {x \in DOMAIN f : x[1] \in TaskDirs /\ ~Matter(f[x]).ok}

\* the listing that ended has read the directories of the store
ListReadStore(o, p, s) ==
  IF o.op = "cliList"
  THEN PathJoin(o.at, ".sabin") = Root /\ p[o.at].sabin.kind = "dir"
  ELSE s[o.at].sabinDir = Root

\* C7: a listing that reads a task file with a malformed frontmatter block,
\* and a status update of such a file, fail with a parse error.
C7_ParseErrorReachesCaller ==
  [][/\ (/\ last'.op \in ListOps
         /\ ListReadStore(last', proj, svc')
         /\ CorruptFiles(files) # {})
        => (~last'.ok /\ last'.err = "parse")
     /\ UpdateSucceeds => Matter(TextBefore).ok]_vars

\* C10: a successful status update to in_progress from a project whose
\* .sabin is a link records workingDir = the path of the project relative
\* to the parent of the shared root ("." when it is that parent).
C10_WorkingDirRecorded ==
  [][(/\ UpdateSucceeds
      /\ last'.status = "in_progress"
      /\ proj[last'.at].sabin.kind = "file")
     => (/\ UpdatedTo \in DOMAIN files'
         /\ RecordedWorkingDir(files'[UpdatedTo])
              = GetWorkingDirName(Root, last'.at))]_vars

\* ------------------------------------------------------------------------
\* Properties of the resolver, checked under SpecLink
\* ------------------------------------------------------------------------

ResolveOps ==
  {"resolveSabinDir", "extResolveSabinDir", "watcherResolveSabinDir"}

\* .sabin is a file that is not valid JSON or has no sabinDir
MalformedLink(entry) == entry.kind = "file" /\ (~entry.json \/ ~entry.field)

\* C8: a resolution that reads a .sabin file which is not valid JSON or has
\* no sabinDir fails; it returns no root.  (An extension service that answers
\* from its cache reads no file.)
C8_MalformedLinkFails ==
  [][(/\ last'.op \in ResolveOps
      /\ MalformedLink(proj[last'.at].sabin)
      /\ last'.op = "extResolveSabinDir" => ~svc[last'.at].cached)
     => ~last'.ok]_vars

\* ------------------------------------------------------------------------
\* Properties of the numbering service, checked under SpecNum
\* ------------------------------------------------------------------------

NumberOps == {"getNextTaskNumber", "extGetNextTaskNumber"}

\* the numbers of the file names <prefix>-<digits>.md in the two directories
NumbersIn(f, prefix) ==
  {ParseInt(MatchTaskFile(x[2], prefix)) :
     x \in {y \in DOMAIN f : y[1] \in TaskDirs /\ MatchTaskFile(y[2], prefix) # <<>>}}

Largest(S) == IF S = {} THEN 0 ELSE CHOOSE n \in S : \A m \in S : m <= n

\* C9: getNextTaskNumber returns 1 + the largest number among the file names
\* <prefix>-<digits>.md of tasks/open and tasks/completed together, 1 when
\* there is none, padded to the configured width.
C9_NextIsLargestPlusOne ==
  last.op \in NumberOps =>
    last.out = PadStart(NumToStr(1 + Largest(NumbersIn(files, Config.projectPrefix))),
                        Config.taskNumberPadding)

\* ------------------------------------------------------------------------
\* Properties of the store, continued (checked under Spec)
\* ------------------------------------------------------------------------

\* C11: creating a task writes no workingDir: the file a successful create
\* has written carries no workingDir field (the field comes only from a
\* transition to in_progress under a linked root).
C11_CreateWritesNoWorkingDir ==
  [][(last'.op \in CreateOps /\ last'.ok) =>
       (/\ <<"open", last'.out>> \in DOMAIN files'
        /\ RecordedWorkingDir(files'[<<"open", last'.out>>]) = Undef)]_vars

\* ------------------------------------------------------------------------
\* Properties of root resolution, continued (checked under SpecLink)
\* ------------------------------------------------------------------------

\* C12: resolveSabinDir(P) called right after a successful
\* writeSabinLink(P, T) succeeds and returns sabinDir = T and isLinked = TRUE
\* (the project root of the answer is P, the directory asked about).
C12_LinkThenResolve ==
  [][(/\ last.op = "writeSabinLink" /\ last.ok
      /\ last'.op = "resolveSabinDir" /\ last'.at = last.at)
     => (last'.ok /\ last'.out = <<last.out, TRUE>>)]_vars

\* ------------------------------------------------------------------------
\* writeTask and parseTask on their own: tasks written and read back
\* ------------------------------------------------------------------------

TaskPaths == {<<"open", FileName(IdJ1)>>, <<"completed", FileName(IdJ1)>>}

\* the Task objects handed to writeTask: plan and workingDir present or absent
TasksToWrite ==
  [ok : {TRUE},
   status : {<<"open">>, <<"completed">>},
   title : {<<"A">>},
   plan : {Undef, <<"p">>},
   workingDir : {Undef, <<"b">>},
   content : {<<>>, <<Txt("x")>>},
   path : TaskPaths]

TaskInit ==
  /\ dirs = BothDirs
  /\ files = <<>>
  /\ proj = MainProjects
  /\ svc = [p \in Workspaces |-> NoCache]
  /\ op = [w \in Writers |-> Idle]
  /\ watcher = NewWatcher
  /\ heap = NewHeap
  /\ last = NoOutcome

\* core writeTask(task)
CoreWriteTask(task) ==
  /\ files' = Put(files, task.path[1], task.path[2], WriteTaskText(task))
  /\ last' = Outcome("writeTask", <<>>, task.path, "", TRUE, "", task)
  /\ UNCHANGED <<dirs, proj, svc, op, watcher, heap>>

\* core parseTask(filePath)
CoreParseTask(filePath) ==
  /\ filePath \in DOMAIN files
  /\ LET task == ParseTask(files[filePath], filePath)
     IN  last' = IF task.ok
                 THEN Outcome("parseTask", <<>>, filePath, "", TRUE, "", task)
                 ELSE Failure("parseTask", <<>>, filePath, "", "parse")
  /\ UNCHANGED <<dirs, files, proj, svc, op, watcher, heap>>

DoWriteTask == \E task \in TasksToWrite : CoreWriteTask(task)

DoParseTask == \E filePath \in TaskPaths : CoreParseTask(filePath)

TaskNext ==
  \/ DoWriteTask
  \/ DoParseTask

SpecTask == TaskInit /\ [][TaskNext]_vars

\* C13: parseTask on the file writeTask has just written returns the Task
\* that was written: the same status, title, plan, workingDir, content and
\* path, absent fields coming back absent.
C13_WriteThenParse ==
  [][(/\ last.op = "writeTask" /\ last'.op = "parseTask"
      /\ last'.id = last.id)
     => (last'.ok /\ last'.out = last.out)]_vars

\* ------------------------------------------------------------------------
\* Properties of the store, continued (checked under Spec)
\* ------------------------------------------------------------------------

\* no file name of tasks/open or tasks/completed contains the id
NoFileMatches(f, taskId) ==
  \A x \in DOMAIN f : x[1] \in TaskDirs => ~Includes(x[2], taskId)

FindIds == {IdJ1, <<"1">>}
FindNames ==
  {FileName(IdJ1), <<"T", "-", "0", "1", ".", "m", "d">>,
   <<"J", "-", "1", "1", ".", "m", "d">>}
FindStatuses == {"in_progress", "completed"}

\* the file writeTask leaves for a task whose status is that of its directory
StoredText(dir) ==
  WriteTaskText([ok |-> TRUE, status |-> <<dir>>, title |-> <<"A">>,
                 plan |-> Undef, workingDir |-> Undef,
                 content |-> <<Txt("x")>>, path |-> <<dir>>])

FindInit ==
  /\ dirs = BothDirs
  /\ \E S \in SUBSET (TaskDirs \X FindNames) :
       files = [x \in S |-> StoredText(x[1])]
  /\ proj = MainProjects
  /\ svc = [p \in Workspaces |-> NoCache]
  /\ op = [w \in Writers |-> Idle]
  /\ watcher = NewWatcher
  /\ heap = NewHeap
  /\ last = NoOutcome

DoFindCliUpdate ==
  \E cwd \in CliProjects, id \in FindIds, st \in FindStatuses :
    CliUpdateBegin(SerialWriter, cwd, id, st)

DoFindExtUpdate ==
  \E ws \in ExtWorkspaces, id \in FindIds, st \in FindStatuses :
    ExtUpdateTaskStatus(SerialWriter, ws, id, st)

FindNext ==
  \/ DoFindCliUpdate
  \/ DoCliMkdir
  \/ DoCliWrite
  \/ DoCliUnlink
  \/ DoFindExtUpdate
  \/ DoExtRename

SpecFind == FindInit /\ [][FindNext]_vars

\* what each updater takes for a match of the id
Matches(kind, name, taskId) ==
  IF kind = "cliUpdate" THEN Includes(name, taskId) ELSE name = FileName(taskId)

\* the positions of the matches in the listing of tasks/<dir>
MatchIdx(f, dir, kind, taskId) ==
  {i \in 1..Len(ListDir(f, dir)) : Matches(kind, ListDir(f, dir)[i], taskId)}

\* C15: when tasks/open holds a match of the id, the update works on a file
\* of tasks/open, whatever tasks/completed holds, and on the first match in
\* the order of the directory listing; the files of tasks/completed are left
\* alone by an update that rewrites the open file in place.
C15_OpenMatchWins ==
  [][/\ \A w \in Writers :
          (/\ op[w].kind = "idle" /\ op'[w].kind # "idle"
           /\ MatchIdx(files, "open", op'[w].kind, op'[w].id) # {})
          => /\ op'[w].src[1] = "open"
             /\ \E i \in MatchIdx(files, "open", op'[w].kind, op'[w].id) :
                  /\ ListDir(files, "open")[i] = op'[w].src[2]
                  /\ \A j \in MatchIdx(files, "open", op'[w].kind, op'[w].id) :
                       i <= j
     /\ (/\ last'.op = "extUpdate" /\ last'.ok /\ ~WasInFlight
         /\ Has(files, "open", FileName(last'.id)))
        => /\ \A x \in DOMAIN files :
                x[1] = "completed" => (x \in DOMAIN files' /\ files'[x] = files[x])
           /\ RecordedStatus(files'[<<"open", FileName(last'.id)>>])
                = <<last'.status>>]_vars

\* C15, witness: an update has just picked its file on a store where two
\* names of tasks/open and one of tasks/completed match the id.
C15_SeveralMatches ==
  \E w \in Writers :
    /\ op[w].kind = "cliUpdate" /\ op[w].steps = MoveSteps
    /\ Cardinality(MatchIdx(files, "open", "cliUpdate", op[w].id)) >= 2
    /\ MatchIdx(files, "completed", "cliUpdate", op[w].id) # {}
    /\ op[w].src[1] = "open"

\* ------------------------------------------------------------------------
\* Properties of the store, continued (checked under Spec)
\* ------------------------------------------------------------------------

\* options.number / taskNumber as the caller supplies it: absent, or a string
NoNumber == [given |-> FALSE, text |-> <<>>]
GivenNumber(text) == [given |-> TRUE, text |-> text]

\* `if (options.number)` / `if (taskNumber)`: what the branch on the option
\* sees; the empty string is falsy like undefined, so both take the branch
\* that generates an id
NumberArg(opt) == IF opt.given /\ opt.text # <<>> THEN opt.text ELSE <<>>

\* the supplied ids that are empty or hold only whitespace
BlankNumbers == {GivenNumber(<<>>), GivenNumber(Blank2)}

\* C16: a create call whose supplied id is empty or whitespace only is
\* rejected: it ends in an error and writes no task file.
C16_BlankIdRejected ==
  [][\A opt \in BlankNumbers :
       /\ \A cwd \in CliProjects :
            CliCreateTask(cwd, NumberArg(opt)) => (~last'.ok /\ files' = files)
       /\ \A ws \in ExtWorkspaces :
            ExtCreateTask(ws, NumberArg(opt)) => (~last'.ok /\ files' = files)]_vars

\* ------------------------------------------------------------------------
\* TaskService.deleteTask on its own
\* ------------------------------------------------------------------------

DeleteNames == FindNames \cup {<<"T", "-", "0", "2", ".", "m", "d">>}

DeleteInit ==
  /\ dirs = BothDirs
  /\ \E S \in SUBSET (TaskDirs \X DeleteNames) :
       files = [x \in S |-> StoredText(x[1])]
  /\ proj = MainProjects
  /\ svc = [p \in Workspaces |-> NoCache]
  /\ op = [w \in Writers |-> Idle]
  /\ watcher = NewWatcher
  /\ heap = NewHeap
  /\ last = NoOutcome

\* deleteTask(taskPath) for any path of the two directories, present or not
DoDeleteTask == \E d \in TaskDirs, name \in DeleteNames : ExtDeleteTask(d, name)

SpecDelete == DeleteInit /\ [][DoDeleteTask]_vars

\* C17: deleteTask(path) removes the file at that path and only that file,
\* every other file keeping its content; when no file is at the path it
\* fails with not-found and removes nothing.
C17_DeleteRemovesOnlyThatFile ==
  [][\A d \in TaskDirs, name \in DeleteNames :
       ExtDeleteTask(d, name) =>
         IF <<d, name>> \in DOMAIN files
         THEN /\ last'.ok
              /\ DOMAIN files' = DOMAIN files \ {<<d, name>>}
              /\ \A x \in DOMAIN files' : files'[x] = files[x]
         ELSE /\ ~last'.ok /\ last'.err = "not_found"
              /\ files' = files]_vars

\* C17, witness: a file was deleted while a file of the same name in the
\* other directory stayed.
C17_DeletedOneOfTwo ==
  /\ last.op = "extDelete" /\ last.ok
  /\ \E d \in TaskDirs : Has(files, d, last.id)

\* ------------------------------------------------------------------------
\* config.json: readConfig and writeConfig
\* ------------------------------------------------------------------------


\* getConfigPath(sabinDir): config.json lies beside tasks/, in no task directory
ConfigPath == <<"", <<"config.json">>>>

\* JSON.parse(content) of a file whose lines are "key": value members;
\* [ok, obj], a later member of a key replacing an earlier one
JsonParse(text) ==
  LET lines == text.lines
      keys == {lines[i].k : i \in 1..Len(lines)}
  IN  [ok |-> \A i \in 1..Len(lines) : lines[i].t = "kv",
       obj |-> [k \in keys |->
                  lines[CHOOSE i \in 1..Len(lines) :
                          /\ lines[i].k = k
                          /\ \A j \in 1..Len(lines) : lines[j].k = k => j <= i].v]]

\* an object that keeps only what the file says
FileOnly(defaults, config) == config

\* { ...DEFAULT_CONFIG, ...config }
SpreadOver(defaults, config) ==
  [k \in (DOMAIN defaults) \cup (DOMAIN config) |->
     IF k \in DOMAIN config THEN config[k] ELSE defaults[k]]

\* readConfig(sabinDir) on the files f
ReadConfig(f) ==
  IF ConfigPath \notin DOMAIN f THEN DefaultConfig
  ELSE IF ~JsonParse(f[ConfigPath]).ok THEN DefaultConfig
  ELSE SpreadOver(DefaultConfig, JsonParse(f[ConfigPath]).obj)

\* JSON.stringify(config, null, 2)
JsonStringify(config) ==
  [lines |-> <<KV("projectPrefix", config.projectPrefix),
               KV("taskNumberPadding", config.taskNumberPadding)>>,
   nl |-> FALSE]

\* the config.json files a root may start with: none, not JSON, and objects
\* with some of the fields
ConfigTexts ==
  { [lines |-> <<BadLine>>, nl |-> FALSE],
    [lines |-> <<>>, nl |-> FALSE],
    [lines |-> <<KV("projectPrefix", <<"M">>)>>, nl |-> FALSE],
    [lines |-> <<KV("taskNumberPadding", 6)>>, nl |-> FALSE],
    [lines |-> <<KV("projectPrefix", <<"M">>), KV("note", <<"n">>)>>, nl |-> FALSE],
    [lines |-> <<KV("projectPrefix", <<"M">>), KV("projectPrefix", <<"T">>)>>,
     nl |-> FALSE] }

\* the configurations handed to writeConfig
MaxPadding == 10
ConfigPrefixes == {<<"TASK">>, <<"M">>, <<"T">>, <<"J">>, <<"NTV">>}

ConfigsToWrite == [projectPrefix : ConfigPrefixes,
                   taskNumberPadding : 1..MaxPadding]

ConfigInit ==
  /\ dirs = BothDirs
  /\ \/ files = <<>>
     \/ \E text \in ConfigTexts : files = OneFile(ConfigPath[1], ConfigPath[2], text)
  /\ proj = MainProjects
  /\ svc = [p \in Workspaces |-> NoCache]
  /\ op = [w \in Writers |-> Idle]
  /\ watcher = NewWatcher
  /\ heap = NewHeap
  /\ last = NoOutcome

CoreReadConfig ==
  /\ last' = Outcome("readConfig", <<>>, <<>>, "", TRUE, "", ReadConfig(files))
  /\ UNCHANGED <<dirs, files, proj, svc, op, watcher, heap>>

\* writeConfig(config, sabinDir)
CoreWriteConfig(config) ==
  /\ files' = Put(files, ConfigPath[1], ConfigPath[2], JsonStringify(config))
  /\ last' = Outcome("writeConfig", <<>>, <<>>, "", TRUE, "", config)
  /\ UNCHANGED <<dirs, proj, svc, op, watcher, heap>>

DoWriteConfig == \E config \in ConfigsToWrite : CoreWriteConfig(config)

ConfigNext ==
  \/ CoreReadConfig
  \/ DoWriteConfig

SpecConfig == ConfigInit /\ [][ConfigNext]_vars

\* the value the file gives to a field, when it is JSON and has the field
FileHas(f, k) ==
  /\ ConfigPath \in DOMAIN f
  /\ JsonParse(f[ConfigPath]).ok
  /\ k \in DOMAIN JsonParse(f[ConfigPath]).obj

\* C18: readConfig returns the defaults when config.json is missing or is
\* not JSON; otherwise each field the file has comes from the file, each
\* default field the file lacks keeps its default, and nothing else is there.
C18_ReadConfigMerges ==
  last.op = "readConfig" =>
    /\ (ConfigPath \notin DOMAIN files \/ ~JsonParse(files[ConfigPath]).ok)
         => last.out = DefaultConfig
    /\ \A k \in DOMAIN last.out :
         last.out[k] = IF FileHas(files, k)
                       THEN JsonParse(files[ConfigPath]).obj[k]
                       ELSE DefaultConfig[k]
    /\ \A k \in DOMAIN DefaultConfig : k \in DOMAIN last.out
    /\ \A k \in {"projectPrefix", "taskNumberPadding", "note"} :
         FileHas(files, k) => k \in DOMAIN last.out

\* C18, witness: a config.json with one of the two fields was read, one
\* field of the answer coming from the file and the other from the defaults.
C18_PartialFileRead ==
  /\ last.op = "readConfig"
  /\ FileHas(files, "projectPrefix") /\ ~FileHas(files, "taskNumberPadding")
  /\ last.out.projectPrefix # DefaultConfig.projectPrefix
  /\ last.out.taskNumberPadding = DefaultConfig.taskNumberPadding

\* ------------------------------------------------------------------------
\* Properties of root resolution, continued (checked under SpecLink)
\* ------------------------------------------------------------------------

\* C19: core resolveSabinDir(startDir) answers by what <startDir>/.sabin is:
\* nothing there, the call fails with the not-found error; a directory, the
\* call returns that directory with isLinked = FALSE; isLinked = TRUE is
\* returned only for a regular file.
C19_ResolveClassifies ==
  last.op = "resolveSabinDir" =>
    /\ proj[last.at].sabin.kind = "none" => (~last.ok /\ last.err = "not_found")
    /\ proj[last.at].sabin.kind = "dir" =>
         (last.ok /\ last.out = <<PathJoin(last.at, ".sabin"), FALSE>>)
    /\ (last.ok /\ last.out[2]) => proj[last.at].sabin.kind = "file"

\* C19, witness: a project with a .sabin directory was resolved while the
\* other project has no .sabin at all.
C19_DirectoryResolved ==
  /\ last.op = "resolveSabinDir" /\ last.ok
  /\ proj[last.at].sabin.kind = "dir"
  /\ \E p \in LinkProjects : proj[p].sabin.kind = "none"

\* ------------------------------------------------------------------------
\* Properties of the numbering service, continued (checked under SpecNum)
\* ------------------------------------------------------------------------

\* C20: the string core getNextTaskNumber returns has at least
\* taskNumberPadding characters, is never cut to that width, and parses
\* back to the largest existing number + 1.
C20_WidthAndValueKept ==
  last.op = "getNextTaskNumber" =>
    /\ Len(last.out) >= Config.taskNumberPadding
    /\ ParseInt(last.out) = 1 + Largest(NumbersIn(files, Config.projectPrefix))

\* ------------------------------------------------------------------------
\* Properties of the store, continued (checked under Spec)
\* ------------------------------------------------------------------------

\* C21: a create without a custom id writes a file of a name that no file
\* of tasks/open or tasks/completed had before, and leaves every file that
\* existed as it was.
C21_GeneratedIdIsFresh ==
  [][(last'.op \in CreateOps /\ last'.ok /\ last'.id = <<>>) =>
       /\ DirsHolding(files, last'.out) = {}
       /\ \A x \in DOMAIN files : x \in DOMAIN files' /\ files'[x] = files[x]]_vars

\* ------------------------------------------------------------------------
\* Properties of the search of updateStatus, continued (checked under
\* SpecFind)
\* ------------------------------------------------------------------------

\* C22: when a file named <id>.md exists in tasks/open or tasks/completed,
\* the CLI update that is asked for the id works on a file of that name, and
\* on no file whose name merely contains the id.
C22_ExactNameIsUpdated ==
  [][\A w \in Writers :
       (/\ op[w].kind = "idle" /\ op'[w].kind = "cliUpdate"
        /\ DirsHolding(files, FileName(op'[w].id)) # {})
       => op'[w].src[2] = FileName(op'[w].id)]_vars

\* ------------------------------------------------------------------------
\* Status updates on task files of several shapes
\* ------------------------------------------------------------------------

\* a task file with status, title and plan
FullText ==
  [lines |-> <<Delim, KV("status", <<"open">>), KV("title", <<"A">>),
               KV("plan", <<"p">>), Delim, Txt("x")>>,
   nl |-> TRUE]

\* a task file without a status line whose body has the line "status: draft"
StatusInBody ==
  [lines |-> <<Delim, KV("title", <<"A">>), Delim, Txt("x"),
               KV("status", <<"draft">>)>>,
   nl |-> TRUE]

BodyTexts == {FullText, HandWritten, StatusInBody}

BodyInit ==
  /\ dirs = BothDirs
  /\ \E d \in TaskDirs, text \in BodyTexts :
       files = OneFile(d, FileName(IdJ1), text)
  /\ proj = MainProjects
  /\ svc = [p \in Workspaces |-> NoCache]
  /\ op = [w \in Writers |-> Idle]
  /\ watcher = NewWatcher
  /\ heap = NewHeap
  /\ last = NoOutcome

BodyNext ==
  \/ DoCliUpdate
  \/ DoCliMkdir
  \/ DoCliWrite
  \/ DoCliUnlink
  \/ DoExtUpdate
  \/ DoExtRename

SpecBody == BodyInit /\ [][BodyNext]_vars

\* the title, the plan and the markdown body a reader finds in a text
TitlePlanBody(text) ==
  <<Field(Matter(text).data, "title"), Field(Matter(text).data, "plan"),
    Matter(text).body>>

\* C23: after a successful status update the title, the plan and the
\* markdown body of the task file are those it had before the update.
C23_OnlyStatusChanges ==
  [][UpdateSucceeds =>
       (/\ UpdatedTo \in DOMAIN files'
        /\ TitlePlanBody(files'[UpdatedTo]) = TitlePlanBody(TextBefore))]_vars

\* ------------------------------------------------------------------------
\* Two updateStatus calls at once: every awaited filesystem call is a step
\* ------------------------------------------------------------------------

RaceStatuses == {"in_progress", "completed"}

\* what is left after the search has found taskFile in tasks/<dir>
FoundIn(w, cwd, taskId, newStatus, dir, taskFile) ==
  [kind |-> "cliUpdate", steps |-> <<"read">>,
   at |-> cwd, id |-> taskId, status |-> newStatus,
   src |-> <<dir, taskFile>>, dst |-> NoFile,
   text |-> NoText, pre |-> NoText]

\* updateStatus up to `await fs.readdir(openDir)` and the find on its result
RaceListOpen(w, cwd, taskId, newStatus) ==
  /\ op[w].kind = "idle"
  /\ IsValidStatus(newStatus)
  /\ ResolveSabinDir(proj[cwd].sabin, cwd).ok
  /\ LET inOpen == FindIn(files, dirs, ResolveSabinDir(proj[cwd].sabin, cwd),
                          "open", taskId)
     IN  op' = [op EXCEPT ![w] =
                  IF inOpen # <<>>
                  THEN FoundIn(w, cwd, taskId, newStatus, "open", inOpen)
                  ELSE [FoundIn(w, cwd, taskId, newStatus, "", <<>>)
                          EXCEPT !.steps = <<"listCompleted">>]]
  /\ last' = NoOutcome
  /\ UNCHANGED <<dirs, files, proj, svc, watcher, heap>>

\* `await fs.readdir(completedDir)` and the find on its result
RaceListCompleted(w) ==
  /\ AtStep(w, "cliUpdate", "listCompleted")
  /\ LET inCompleted ==
           FindIn(files, dirs, ResolveSabinDir(proj[op[w].at].sabin, op[w].at),
                  "completed", op[w].id)
     IN  IF inCompleted = <<>>
         THEN UpdateEnds(w, FALSE, "not_found")
         ELSE /\ op' = [op EXCEPT ![w] =
                          FoundIn(w, op[w].at, op[w].id, op[w].status,
                                  "completed", inCompleted)]
              /\ UNCHANGED last
  /\ UNCHANGED <<dirs, files, proj, svc, watcher, heap>>

\* `await parseTask(taskPath)`, then the decision to move or write in place
RaceRead(w) ==
  /\ AtStep(w, "cliUpdate", "read")
  /\ IF ~Has(files, op[w].src[1], op[w].src[2])
     THEN UpdateEnds(w, FALSE, "io")
     ELSE LET r == ResolveSabinDir(proj[op[w].at].sabin, op[w].at)
              plan == UpdateLoaded(r, op[w].src[1], op[w].src[2],
                                   files[op[w].src],
                                   ParseTask(files[op[w].src],
                                             TaskPath(r.sabinDir, op[w].src[1],
                                                      op[w].src[2])),
                                   op[w].status)
          IN  IF ~plan.ok THEN UpdateEnds(w, FALSE, plan.err)
              ELSE /\ op' = [op EXCEPT ![w] =
                               [@ EXCEPT
                                  !.steps = IF plan.move THEN MoveSteps
                                            ELSE InPlaceSteps,
                                  !.dst = plan.dst, !.text = plan.text,
                                  !.pre = plan.pre]]
                   /\ UNCHANGED last
  /\ UNCHANGED <<dirs, files, proj, svc, watcher, heap>>

RaceInit ==
  /\ dirs = BothDirs
  /\ \E d \in TaskDirs : files = OneFile(d, FileName(IdJ1), StoredText(d))
  /\ proj = MainProjects
  /\ svc = [p \in Workspaces |-> NoCache]
  /\ op = [w \in Writers |-> Idle]
  /\ watcher = NewWatcher
  /\ heap = NewHeap
  /\ last = NoOutcome

DoRaceListOpen ==
  \E w \in Writers, cwd \in CliProjects, st \in RaceStatuses :
    RaceListOpen(w, cwd, IdJ1, st)

DoRaceListCompleted == \E w \in Writers : RaceListCompleted(w)

DoRaceRead == \E w \in Writers : RaceRead(w)

RaceNext ==
  \/ DoRaceListOpen
  \/ DoRaceListCompleted
  \/ DoRaceRead
  \/ DoCliMkdir
  \/ DoCliWrite
  \/ DoCliUnlink

SpecRace == RaceInit /\ [][RaceNext]_vars

\* C24: whatever the interleaving of two updateStatus calls on one task
\* id, at every point at least one file of that task exists.
C24_TaskNeverLost == DirsHolding(files, FileName(IdJ1)) # {}

\* ------------------------------------------------------------------------
\* SabinFileWatcher: the debounce timers
\* ------------------------------------------------------------------------

\* the delays of the two timers, in ms
renameDebounceDelay == 300

\* a change timer as short as the rename timer
ShortDelay == renameDebounceDelay

debounceDelay == 500

\* the clock advances by at most TickMs at a time, up to MaxTime; a watcher
\* handles at most MaxEvents events
TickMs == 100
MaxTime == 1500
MaxEvents == 3

\* The handler the constructor registers for each event of its two
\* FileSystemWatchers.
Handlers ==
  [fileChange |-> "change", fileCreate |-> "change", fileDelete |-> "rename",
   dirCreate |-> "rename", dirDelete |-> "rename"]

HandledBy(handler) == {e \in DOMAIN Handlers : Handlers[e] = handler}

\* setTimeout(..., delay) at the present time
SetTimeout(delay) ==
  [defined |-> TRUE, pending |-> TRUE, due |-> watcher.now + delay]

\* clearTimeout(timer): the timer will not fire, the field keeps its handle
ClearTimeout(timer) == [timer EXCEPT !.pending = FALSE]

IsDue(timer) == timer.pending /\ timer.due <= watcher.now

\* The event loop runs the timers that are due before it delivers an event.
NoTimerDue ==
  /\ ~IsDue(watcher.debounceTimer)
  /\ ~IsDue(watcher.renameDebounceTimer)

\* the history keeps the time of an event and the handler that ran for it
Received(event, handler) ==
  Append(watcher.events, [at |-> watcher.now, handler |-> handler])

CanReceive ==
  /\ ~watcher.disposed
  /\ NoTimerDue
  /\ Len(watcher.events) < MaxEvents

WatcherOnly == UNCHANGED <<dirs, files, proj, svc, op, last, heap>>

\* a handler that restarts the one timer whatever the event
HandleRenameShared(event) ==
  /\ CanReceive
  /\ watcher' = [watcher EXCEPT
                   !.debounceTimer = SetTimeout(renameDebounceDelay),
                   !.events = Received(event, "rename")]
  /\ WatcherOnly

\* handleChange(): clear the change timer if one is set, start a new one
HandleChange(event) ==
  /\ CanReceive
  /\ watcher' = [watcher EXCEPT
                   !.debounceTimer = SetTimeout(debounceDelay),
                   !.events = Received(event, "change")]
  /\ WatcherOnly

\* handleRename(): clear the rename timer if one is set, start a new one
HandleRename(event) ==
  /\ CanReceive
  /\ watcher' = [watcher EXCEPT
                   !.renameDebounceTimer = SetTimeout(renameDebounceDelay),
                   !.events = Received(event, "rename")]
  /\ WatcherOnly

Called(timer) == Append(watcher.calls, [at |-> watcher.now, timer |-> timer])

\* the callback of the change timer: onChangeCallback(), then the field is
\* undefined again
ChangeTimerFires ==
  /\ IsDue(watcher.debounceTimer)
  /\ watcher' = [watcher EXCEPT !.debounceTimer = NoTimer,
                                !.calls = Called("change")]
  /\ WatcherOnly

\* the callback of the rename timer
RenameTimerFires ==
  /\ IsDue(watcher.renameDebounceTimer)
  /\ watcher' = [watcher EXCEPT !.renameDebounceTimer = NoTimer,
                                !.calls = Called("rename")]
  /\ WatcherOnly

\* a disposal that leaves the timers running
DisposeWatchersOnly ==
  /\ ~watcher.disposed
  /\ watcher' = [watcher EXCEPT !.disposed = TRUE]
  /\ WatcherOnly

\* dispose(): clear both timers, dispose both FileSystemWatchers
Dispose ==
  /\ ~watcher.disposed
  /\ watcher' = [watcher EXCEPT
                   !.debounceTimer = ClearTimeout(@),
                   !.renameDebounceTimer = ClearTimeout(@),
                   !.disposed = TRUE]
  /\ WatcherOnly

Min(a, b) == IF a <= b THEN a ELSE b

\* the time of the next thing the clock must stop at
NextStop(timer, t) == IF timer.pending THEN Min(timer.due, t) ELSE t

\* time passes, never beyond a pending timer
Tick ==
  /\ NoTimerDue
  /\ watcher.now + TickMs <= MaxTime
  /\ watcher' = [watcher EXCEPT
                   !.now = NextStop(watcher.debounceTimer,
                                    NextStop(watcher.renameDebounceTimer,
                                             watcher.now + TickMs))]
  /\ WatcherOnly

WatchInit ==
  /\ dirs = BothDirs
  /\ files = <<>>
  /\ proj = MainProjects
  /\ svc = [p \in Workspaces |-> NoCache]
  /\ op = [w \in Writers |-> Idle]
  /\ watcher = NewWatcher
  /\ heap = NewHeap
  /\ last = NoOutcome

DoHandleChange == \E event \in HandledBy("change") : HandleChange(event)

DoHandleRename == \E event \in HandledBy("rename") : HandleRename(event)

WatchNext ==
  \/ DoHandleChange
  \/ DoHandleRename
  \/ ChangeTimerFires
  \/ RenameTimerFires
  \/ Dispose
  \/ Tick

SpecWatch == WatchInit /\ [][WatchNext]_vars

\* the events of a handler in w, and the last events of its bursts: those
\* that no event of the handler follows within less than gap ms
EventsOf(w, handler) ==
  {i \in DOMAIN w.events : w.events[i].handler = handler}

BurstEnds(w, handler, gap) ==
  {i \in EventsOf(w, handler) :
     \A j \in EventsOf(w, handler) :
       j > i => w.events[j].at >= w.events[i].at + gap}

CallsAt(w, timer, t) ==
  {k \in DOMAIN w.calls : w.calls[k].timer = timer /\ w.calls[k].at = t}

CallsOf(w, timer) == {k \in DOMAIN w.calls : w.calls[k].timer = timer}

\* every burst of the handler that is over got one call of its timer, gap ms
\* after its last event, and the timer made no other call
OneCallPerBurst(w, handler, gap) ==
  /\ \A k \in CallsOf(w, handler) :
       \E i \in BurstEnds(w, handler, gap) :
         w.calls[k].at = w.events[i].at + gap
  /\ \A i \in BurstEnds(w, handler, gap) :
       /\ Cardinality(CallsAt(w, handler, w.events[i].at + gap)) <= 1
       /\ (~w.disposed /\ w.now > w.events[i].at + gap)
            => CallsAt(w, handler, w.events[i].at + gap) # {}

\* C25: a burst of file change or create events, each less than 500 ms
\* after the one before, makes the change timer invoke the callback exactly
\* once, 500 ms after the last event of the burst, and not before.
C25_OneRefreshPerBurst == OneCallPerBurst(watcher, "change", 500)

\* C25 witness: a burst of two change events 100 ms apart is over and the
\* callback was invoked once for it.
C25_BurstRefreshed ==
  /\ Len(watcher.events) >= 2
  /\ watcher.events[1].handler = "change"
  /\ watcher.events[2].handler = "change"
  /\ watcher.events[2].at = watcher.events[1].at + 100
  /\ CallsAt(watcher, "change", watcher.events[2].at + 500) # {}
  /\ Cardinality(CallsOf(watcher, "change")) = 1

\* a change event i and a rename event j that arrived at the same time
ArrivedTogether(w, i, j) ==
  /\ w.events[i].handler = "change"
  /\ w.events[j].handler = "rename"
  /\ w.events[i].at = w.events[j].at

\* C26: the change timer and the rename timer are independent.  An event
\* of one kind leaves the timer of the other kind as it is; the rename timer
\* invokes the callback 300 ms after the last rename event of a burst and
\* the change timer 500 ms after the last change event of a burst, so a
\* change event and a rename event arriving together lead to two calls.
C26_TimersIndependent ==
  [][/\ (Len(watcher'.events) > Len(watcher.events)
           /\ watcher'.events[Len(watcher'.events)].handler = "rename")
          => watcher'.debounceTimer = watcher.debounceTimer
     /\ (Len(watcher'.events) > Len(watcher.events)
           /\ watcher'.events[Len(watcher'.events)].handler = "change")
          => watcher'.renameDebounceTimer = watcher.renameDebounceTimer
     /\ OneCallPerBurst(watcher', "rename", 300)
     /\ OneCallPerBurst(watcher', "change", 500)]_vars

\* C26 witness: a change event and a rename event arrived together, nothing
\* followed them, and the callback was invoked 300 ms and 500 ms later.
C26_BothTimersFired ==
  /\ Len(watcher.events) = 2
  /\ \/ ArrivedTogether(watcher, 1, 2)
     \/ ArrivedTogether(watcher, 2, 1)
  /\ CallsAt(watcher, "rename", watcher.events[1].at + 300) # {}
  /\ CallsAt(watcher, "change", watcher.events[1].at + 500) # {}
  /\ Len(watcher.calls) = 2

\* C27: once dispose() has run the callback is never invoked again, and no
\* timer is left pending: the timers pending at disposal never fire.
C27_NoRefreshAfterDispose ==
  [][watcher.disposed =>
       /\ watcher'.calls = watcher.calls
       /\ ~watcher.debounceTimer.pending
       /\ ~watcher.renameDebounceTimer.pending]_vars

\* C27 witness: the watcher was disposed while the change timer of an event
\* was pending; the time the timer was due has passed without a call.
C27_PendingTimerCancelled ==
  /\ watcher.disposed
  /\ \E i \in BurstEnds(watcher, "change", 500) :
       /\ watcher.now > watcher.events[i].at + 500
       /\ CallsAt(watcher, "change", watcher.events[i].at + 500) = {}

\* ------------------------------------------------------------------------
\* sabin link and sabin init
\* ------------------------------------------------------------------------

\* checkSabinType(projectRoot) on the .sabin entry of the project
CheckSabinType(entry) ==
  IF entry.kind = "file" THEN "file"
  ELSE IF entry.kind = "dir" THEN "directory"
  ELSE "none"

\* the link file writeSabinLink(projectRoot, targetSabinDir) writes
SabinLinkFile(projectRoot, targetSabinDir) ==
  [kind |-> "file", json |-> TRUE,
   field |-> PathRelative(projectRoot, targetSabinDir) # <<>>,
   target |-> [abs |-> FALSE,
               segs |-> PathRelative(projectRoot, targetSabinDir)]]

\* The target passes the checks of `sabin link`: it is a directory and holds
\* config.json.  The directory <LocalProject>/.sabin is the modelled store;
\* of any other target the caller says what the filesystem holds.
TargetIsValid(target, valid) ==
  IF target = Root
  THEN proj[LocalProject].sabin.kind = "dir" /\ ConfigPath \in DOMAIN files
  ELSE valid

\* the files of tasks/ and config.json after .sabin of projectRoot is removed
\* or created: the modelled store belongs to LocalProject
StoreGone(projectRoot) ==
  /\ dirs' = IF projectRoot = LocalProject THEN NoDirs ELSE dirs
  /\ files' = IF projectRoot = LocalProject THEN <<>> ELSE files

\* a link command that never asks
LinkWithoutAsking(projectRoot, target, valid, shouldReplace) ==
  /\ IF ~TargetIsValid(target, valid)
     THEN /\ last' = Failure("link", projectRoot, <<>>, "", "invalid_target")
          /\ UNCHANGED <<dirs, files, proj>>
     ELSE /\ StoreGone(projectRoot)
          /\ proj' = [proj EXCEPT ![projectRoot].sabin =
                        SabinLinkFile(projectRoot, target)]
          /\ last' = Outcome("link", projectRoot, <<>>, "", TRUE, "", target)
  /\ UNCHANGED <<svc, op, watcher, heap>>

\* linkToSharedSabin(targetPath) run in projectRoot; shouldReplace is the
\* answer the user gives if the command asks
LinkToSharedSabin(projectRoot, target, valid, shouldReplace) ==
  /\ IF ~TargetIsValid(target, valid)
     THEN /\ last' = Failure("link", projectRoot, <<>>, "", "invalid_target")
          /\ UNCHANGED <<dirs, files, proj>>
     ELSE IF CheckSabinType(proj[projectRoot].sabin) = "file"
     THEN /\ last' = Failure("link", projectRoot, <<>>, "", "link_exists")
          /\ UNCHANGED <<dirs, files, proj>>
     ELSE IF CheckSabinType(proj[projectRoot].sabin) = "directory"
             /\ ~shouldReplace
     THEN /\ last' = Outcome("link", projectRoot, <<>>, "cancelled", TRUE, "",
                             <<>>)
          /\ UNCHANGED <<dirs, files, proj>>
     ELSE /\ StoreGone(projectRoot)
          /\ proj' = [proj EXCEPT ![projectRoot].sabin =
                        SabinLinkFile(projectRoot, target)]
          /\ last' = Outcome("link", projectRoot, <<>>, "", TRUE, "", target)
  /\ UNCHANGED <<svc, op, watcher, heap>>

\* the new root of initProject: the directories, and config.json with the
\* prefix of the options
NewRoot(projectRoot, prefix) ==
  /\ proj' = [proj EXCEPT ![projectRoot].sabin = SabinDirEntry]
  /\ dirs' = IF projectRoot = LocalProject THEN BothDirs ELSE dirs
  /\ files' = IF projectRoot = LocalProject
              THEN Put(files, ConfigPath[1], ConfigPath[2],
                       JsonStringify([DefaultConfig EXCEPT
                                        !.projectPrefix = prefix]))
              ELSE files

\* an init that does not look at what is there
InitUnchecked(projectRoot, prefix) ==
  /\ NewRoot(projectRoot, prefix)
  /\ last' = Outcome("init", projectRoot, <<>>, "", TRUE, "", prefix)
  /\ UNCHANGED <<svc, op, watcher, heap>>

\* initProject({prefix}) run in projectRoot
InitProject(projectRoot, prefix) ==
  /\ IF CheckSabinType(proj[projectRoot].sabin) # "none"
     THEN /\ last' = Failure("init", projectRoot, <<>>, "", "exists")
          /\ UNCHANGED <<dirs, files, proj>>
     ELSE /\ NewRoot(projectRoot, prefix)
          /\ last' = Outcome("init", projectRoot, <<>>, "", TRUE, "", prefix)
  /\ UNCHANGED <<svc, op, watcher, heap>>

\* what the modelled store holds when <LocalProject>/.sabin is a directory
SetupStores ==
  { [dirs |-> BothDirs, files |-> <<>>],
    [dirs |-> BothDirs,
     files |-> OneFile(ConfigPath[1], ConfigPath[2], JsonStringify(DefaultConfig))],
    [dirs |-> BothDirs,
     files |-> Put(OneFile(ConfigPath[1], ConfigPath[2],
                           JsonStringify(DefaultConfig)),
                   "open", FileName(IdJ1), HandWritten)] }

SetupInit ==
  /\ \E a, b \in SabinEntries :
       /\ proj = [p \in Workspaces |->
                    IF p = LocalProject THEN [sabin |-> a, own |-> FALSE]
                    ELSE IF p = LinkedProject THEN [sabin |-> b, own |-> FALSE]
                    ELSE [sabin |-> SabinNone, own |-> TRUE]]
       /\ IF a.kind = "dir"
          THEN \E st \in SetupStores : dirs = st.dirs /\ files = st.files
          ELSE dirs = NoDirs /\ files = <<>>
  /\ svc = [p \in Workspaces |-> NoCache]
  /\ op = [w \in Writers |-> Idle]
  /\ watcher = NewWatcher
  /\ heap = NewHeap
  /\ last = NoOutcome

DoLink ==
  \E p \in LinkProjects, t \in LinkTargets, valid \in BOOLEAN,
     shouldReplace \in BOOLEAN :
    LinkToSharedSabin(p, t, valid, shouldReplace)

DoInit == \E p \in LinkProjects, prefix \in ConfigPrefixes : InitProject(p, prefix)

SetupNext ==
  \/ DoLink
  \/ DoInit

SpecSetup == SetupInit /\ [][SetupNext]_vars

\* C28: `sabin link` removes or overwrites an existing .sabin only when it
\* is a directory and the user confirmed, and then replaces it by the link;
\* declined, or with a link file there, it leaves everything as it is, and
\* with a link file there it fails.
C28_LinkAsksBeforeReplacing ==
  [][\A p \in LinkProjects, t \in LinkTargets, valid \in BOOLEAN,
        shouldReplace \in BOOLEAN :
       LinkToSharedSabin(p, t, valid, shouldReplace) =>
         /\ (proj[p].sabin.kind = "dir" /\ ~shouldReplace)
              => UNCHANGED <<dirs, files, proj>>
         /\ (proj[p].sabin.kind = "dir" /\ proj'[p] # proj[p])
              => proj'[p].sabin = SabinLinkFile(p, t)
         /\ proj[p].sabin.kind = "file"
              => ~last'.ok /\ UNCHANGED <<dirs, files, proj>>]_vars

\* C28 witness: the user declined, and the local directory with its task
\* file is still there.
C28_DeclinedKeepsDirectory ==
  /\ last.op = "link"
  /\ last.status = "cancelled"
  /\ proj[LocalProject].sabin.kind = "dir"
  /\ Has(files, "open", FileName(IdJ1))

\* C29: `sabin init` in a project whose .sabin is a directory or a file
\* fails, creates no directory, writes no config.json and changes nothing.
C29_InitRefusesExisting ==
  [][\A p \in LinkProjects, prefix \in ConfigPrefixes :
       (InitProject(p, prefix) /\ proj[p].sabin.kind \in {"dir", "file"}) =>
         ~last'.ok /\ UNCHANGED <<dirs, files, proj>>]_vars

\* C29 witness: init has failed in a project whose .sabin is a directory
\* that has no config.json.
C29_InitFailedOnDirectory ==
  /\ last.op = "init"
  /\ ~last.ok
  /\ last.at = LocalProject
  /\ proj[LocalProject].sabin.kind = "dir"
  /\ ConfigPath \notin DOMAIN files

\* ------------------------------------------------------------------------
\* The Config objects callers get and change
\* ------------------------------------------------------------------------

\* a caller holds at most MaxObjects objects made for it
MaxObjects == 2

\* readConfig(sabinDir) with DEFAULT_CONFIG holding `defaults`:
\* [fresh, value]; fresh = the result is an object made by the call
ReadConfigFrom(defaults, f) ==
  IF ConfigPath \notin DOMAIN f \/ ~JsonParse(f[ConfigPath]).ok
  THEN [fresh |-> FALSE, value |-> defaults]
  ELSE [fresh |-> TRUE,
        value |-> SpreadOver(defaults, JsonParse(f[ConfigPath]).obj)]

HeapOnly == UNCHANGED <<dirs, files, proj, svc, op, watcher>>

\* getDefaultConfig(): { ...DEFAULT_CONFIG }, a new object
GetDefaultConfig ==
  /\ Len(heap.held) < MaxObjects
  /\ heap' = [heap EXCEPT !.held = Append(@, heap.defaults)]
  /\ last' = Outcome("getDefaultConfig", <<>>, <<>>, "", TRUE, "", heap.defaults)
  /\ HeapOnly

\* readConfig(): a new object from the file, or DEFAULT_CONFIG itself when
\* the file is missing or is not JSON
HeapReadConfig ==
  /\ LET r == ReadConfigFrom(heap.defaults, files)
     IN  /\ r.fresh => Len(heap.held) < MaxObjects
         /\ heap' = IF r.fresh THEN [heap EXCEPT !.held = Append(@, r.value)]
                    ELSE [heap EXCEPT !.aliased = TRUE]
         /\ last' = Outcome("readConfig", <<>>, <<>>, "", TRUE, "", r.value)
  /\ HeapOnly

\* The caller sets projectPrefix of an object it got, as initProject does:
\* object i of held, or with i = 0 the DEFAULT_CONFIG it holds.
SetPrefix(i, prefix) ==
  /\ IF i = 0
     THEN /\ heap.aliased
          /\ heap' = [heap EXCEPT !.defaults.projectPrefix = prefix]
     ELSE /\ i \in DOMAIN heap.held
          /\ heap' = [heap EXCEPT !.held[i].projectPrefix = prefix]
  /\ last' = Outcome("setPrefix", <<>>, <<>>, "", TRUE, "", prefix)
  /\ HeapOnly

DoSetPrefix ==
  \E i \in 0..MaxObjects, prefix \in ConfigPrefixes : SetPrefix(i, prefix)

HeapNext ==
  \/ GetDefaultConfig
  \/ HeapReadConfig
  \/ DoSetPrefix

SpecHeap == ConfigInit /\ [][HeapNext]_vars

\* C30: changing an object a caller got from getDefaultConfig() or from
\* readConfig() never changes what a later getDefaultConfig() or
\* readConfig() returns.
C30_ConfigObjectsIndependent ==
  [][last'.op = "setPrefix" =>
       /\ heap'.defaults = heap.defaults
       /\ ReadConfigFrom(heap'.defaults, files').value
            = ReadConfigFrom(heap.defaults, files).value]_vars

====
